---- MODULE Spec2Model ----
(***************************************************************************)
(* A model of the gt4py build pipeline (src/gt4py/build.py) and of the     *)
(* module generator's argument metadata (src/gt4py/backend/               *)
(* module_generator.py).                                                   *)
(*                                                                         *)
(* Python values are modelled as follows.  A dict is a function whose      *)
(* DOMAIN is its key set.  The results of the collaborators (frontend,     *)
(* backend, analysis, generators) are uninterpreted terms: a tuple of the  *)
(* collaborator's name and its arguments, so that a collaborator is        *)
(* deterministic and different arguments give different results.           *)
(***************************************************************************)
EXTENDS Integers, Sequences, FiniteSets, TLC

VARIABLES
    definition,     \* the function definition handed to BuildContext
    kwargs,         \* the keyword arguments handed to BuildContext; a value is <<v>>, None is <<>>
    ctx0,           \* BuildContext._data right after __init__ returned
    ctx,            \* BuildContext._data
    start,          \* kind of the stage object the caller constructed
    stage,          \* kind of the stage object the caller holds; "None" once make_next() returned None
    made,           \* log of the completed makes, oldest first: <<kind, "make_next" | "make">>
    attempts,       \* number of _make invocations so far, completed or not
    transformRuns,  \* number of invocations of gt4py.analysis.transform
    err,            \* the exception that reached the caller, NoErr when none did
    call,           \* the caller's latest call: <<"make" | "make_next", kind of the stage whose
                    \* _make it ran, "None" when it ran none>>
    genKind,        \* class of the module generator: "Base" (a subclass that keeps the base
                    \* __init__ and __call__), "PyExt" or "CUDAPyExt"
    genInitBuilder, \* the builder the generator was constructed with: <<b>>, None is <<>>
    genBuilder,     \* the generator's _builder: <<b>>, None is <<>>
    genArgsData,    \* the generator's args_data
    genPyext,       \* the generator's pyext_module_name and pyext_file_path; <<>> for "Base"
    genLog,         \* log of the calls of the generator, oldest first
    implementation_ir,  \* the implementation IR handed to make_args_data_from_iir
    data,           \* what make_args_data_from_iir returned: <<ModuleData>>, <<>> before the call
    implementation, \* what generate_implementation returned for that ModuleData: <<[kind,
                    \* has_effect, source]>>, <<>> before the call
    program,        \* the StencilProgram handed to the access and boundary analysis
    runs,           \* log of the runs of the analysis on `program`, oldest first
    contexts,       \* two builds: the BuildContext objects, a reference is an index; the
                    \* _data of each, but for a `bindings_src` bound to a dict of `dicts`
    dicts,          \* two builds: the dict objects the caller made and passed as `bindings_src`
    boundDict,      \* two builds: per BuildContext object the index of the dict of `dicts`
                    \* its key `bindings_src` is bound to, 0 when it is bound to none of them
    stages,         \* two builds: per build the stage objects constructed so far: kind,
                    \* ctx (a reference), from (the stage of the build whose make_next
                    \* constructed it, 0 for the caller's)
    held,           \* two builds: per build the stage object its caller holds, 0 for None
    errs,           \* two builds: per build the exception that reached its caller
    alone,          \* two builds: per build the context the build reaches when run alone
    generator,      \* the module generator whose generate_signature is called: its builder
                    \* (with the definition IR) and its args_data
    signature,      \* what generate_signature returned: <<string>>, <<>> before the call
    subscript,      \* the subscript of the source text whose zero-point test is asked for:
                    \* whether it is multi-dimensional and its index constants
    zero_point      \* per interpreter version asked so far what Slice.is_zero_point
                    \* returned for the parsed subscript

pipeVars == <<definition, kwargs, ctx0, ctx, start, stage, made, attempts, transformRuns, err, call>>

genVars == <<genKind, genInitBuilder, genBuilder, genArgsData, genPyext, genLog>>

argVars == <<implementation_ir, data, implementation>>

anaVars == <<program, runs>>

twoVars == <<contexts, dicts, boundDict, stages, held, errs, alone>>

sigVars == <<generator, signature>>

shimVars == <<subscript, zero_point>>

vars == <<pipeVars, genVars, argVars, anaVars, twoVars, sigVars, shimVars>>

-----------------------------------------------------------------------------
(* Bounds of the model *)

\* the caller calls make() directly (a first make of the stage it
\* constructed, or a re-make of the stage it holds) at most this often
MaxDirectMakes == 1

\* a module generator is called at most this often
MaxGenCalls == 3

\* an api_signature has at most this many arguments
MaxArgs == 3

\* a program handed to the analysis has at most this many statements
MaxStmts == 2

\* the analysis runs at most this often on a program
MaxRuns == 2

\* the largest number of dimensions of a subscript
MaxDims == 3

\* the largest index constant of a subscript
MaxConst == 2

-----------------------------------------------------------------------------
(* Exceptions *)

NoErr == <<>>
KeyError(k) == <<"KeyError", k>>
OptionError == <<"ValueError", "invalid build options">>
TypeError == <<"TypeError", "'NoneType' object is not callable">>

-----------------------------------------------------------------------------
(* Dict helpers *)

EmptyDict == [x \in {} |-> x]

Has(d, k) == k \in DOMAIN d

\* d[k] = v
SetItem(d, k, v) == [x \in (DOMAIN d) \cup {k} |-> IF x = k THEN v ELSE d[x]]

\* d.pop(k) as far as d is concerned
DelItem(d, k) == [x \in (DOMAIN d) \ {k} |-> d[x]]

\* d.get(k, default)
GetItem(d, k, default) == IF Has(d, k) THEN d[k] ELSE default

\* `x in list`
InList(x, l) == \E i \in 1..Len(l) : l[i] = x

NoKey == ""

\* the first key of `keys`, in lookup order, whose lookup raises KeyError
FirstMissing(d, keys) ==
    IF \A i \in 1..Len(keys) : Has(d, keys[i])
    THEN NoKey
    ELSE keys[CHOOSE i \in 1..Len(keys) :
                 /\ ~Has(d, keys[i])
                 /\ \A j \in 1..(i - 1) : Has(d, keys[j])]

-----------------------------------------------------------------------------
(* The collaborators: frontend, backend, analysis, generators *)

\* gt4py.definitions.BuildOptions(name=, module=, build_info=)
BuildOptions(name, module, build_info) ==
    [name |-> name, module |-> module, build_info |-> build_info, backend_opts |-> {}]

\* the backends a context can name.  BINDINGS_LANGUAGES and SRC_EXTENSION are
\* the class attributes build.py reads; pyext_files are the file names the
\* backend's PYEXT_GENERATOR_CLASS emits; allowed_opts are the backend options
\* its _check_options accepts.
Backends ==
    { [name |-> "numpy", BINDINGS_LANGUAGES |-> <<>>, SRC_EXTENSION |-> "py",
       pyext_files |-> {}, allowed_opts |-> {}],
      [name |-> "gtx86", BINDINGS_LANGUAGES |-> <<"python">>, SRC_EXTENSION |-> "cpp",
       pyext_files |-> {"computation.src", "bindings.cpp"}, allowed_opts |-> {"verbose"}],
      [name |-> "gtmc", BINDINGS_LANGUAGES |-> <<"python">>, SRC_EXTENSION |-> "hpp",
       pyext_files |-> {"computation.src"}, allowed_opts |-> {"verbose"}] }

\* backend.get_options_id(options)
get_options_id(backend, options) == <<"options_id", backend.name, options>>

\* frontend.get_stencil_id(qualified_name=, definition=, externals=, options_id=)
get_stencil_id(qualified_name, defn, externals, options_id) ==
    <<"stencil_id", qualified_name, defn, externals, options_id>>

\* frontend.generate(definition=, externals=, options=)
generate(defn, externals, options) == <<"definition_ir", defn, externals, options>>

\* backend._check_options(options) returns (TRUE) or raises (FALSE)
check_options(backend, options) == options.backend_opts \subseteq backend.allowed_opts

\* gt4py.analysis.transform(definition_ir=, options=)
transform(definition_ir, options) == <<"implementation_ir", definition_ir, options>>

\* options.as_dict(): a new dict of the options
as_dict(options) == [k \in DOMAIN options |-> options[k]]

\* the text of a generated file
Text(what, from) == <<what, from>>

\* the empty string
EmptyText == Text("", <<>>)

\* backend.PYEXT_GENERATOR_CLASS(class_name, module_name, arch, options)(iir):
\* a new dict of file name -> source text
pyext_generate(backend, id, options, iir) ==
    [f \in backend.pyext_files |-> Text(f, <<backend.name, id, options, iir>>)]

\* backend.GENERATOR_CLASS(backend, options=generator_options)(id, iir)
module_generate(backend, generator_options, id, iir) ==
    Text("stencil_module.py", <<backend.name, generator_options, id, iir>>)

\* f"{name}.py"
PyFileName(name) == name \o ".py"

\* f"computation.{extension}"
ComputationFileName(extension) == "computation." \o extension

-----------------------------------------------------------------------------
(* BuildContext *)

\* variant of _set_no_replace that replaces a key that is there
M_SetNoReplace(d, k, v) == SetItem(d, k, v)

\* BuildContext._set_no_replace
SetNoReplace(d, k, v) == IF ~Has(d, k) THEN SetItem(d, k, v) ELSE d

\* getattr(definition, "__module__", "")
DefinitionModule(defn) == IF Has(defn, "__module__") THEN defn["__module__"] ELSE ""

\* BuildContext.__init__(definition, **kwargs): the resulting _data
BuildContextInit(defn, kw) ==
    LET d0 == [k \in {k \in DOMAIN kw : kw[k] # <<>>} |-> kw[k][1]]
        d1 == SetItem(d0, "definition", defn)
        d2 == SetNoReplace(d1, "module", DefinitionModule(defn))
        d3 == SetNoReplace(d2, "name", defn["__name__"])
        d4 == SetNoReplace(d3, "externals", EmptyDict)
        d5 == SetNoReplace(d4, "qualified_name", d4["module"] \o "." \o d4["name"])
        d6 == SetNoReplace(d5, "build_info", EmptyDict)
    IN  SetNoReplace(d6, "options",
                     BuildOptions(d6["name"], d6["module"], d6["build_info"]))

-----------------------------------------------------------------------------
(* The stages.  A _make is given as the outcome of running it on the        *)
(* context c: the context it leaves behind (the writes done before an       *)
(* exception stay done), the exception it raised and the number of times    *)
(* it invoked the analysis/transform pipeline.                              *)

StageKinds == {"Begin", "IR", "IIR", "Source", "Bindings"}

Done(c) == [ctx |-> c, err |-> NoErr, transforms |-> 0]

Raise(c, e) == [ctx |-> c, err |-> e, transforms |-> 0]

\* BeginStage._make
BeginMake(c) == Done(c)

\* variant of IRStage._make that does not write `id`
M_IRMake(c) ==
    LET m1 == FirstMissing(c, <<"frontend", "backend", "options">>) IN
    IF m1 # NoKey THEN Raise(c, KeyError(m1)) ELSE
    LET c1 == SetItem(c, "options_id", get_options_id(c["backend"], c["options"])) IN
    Done(SetItem(c1, "ir", generate(c1["definition"], c1["externals"], c1["options"])))

\* IRStage._make
IRMake(c) ==
    LET m1 == FirstMissing(c, <<"frontend", "backend", "options">>) IN
    IF m1 # NoKey THEN Raise(c, KeyError(m1)) ELSE
    LET c1 == SetItem(c, "options_id", get_options_id(c["backend"], c["options"]))
        m2 == FirstMissing(c1, <<"qualified_name", "definition", "externals", "options_id">>)
    IN
    IF m2 # NoKey THEN Raise(c1, KeyError(m2)) ELSE
    LET c2 == SetItem(c1, "id", get_stencil_id(c1["qualified_name"], c1["definition"],
                                               c1["externals"], c1["options_id"]))
        m3 == FirstMissing(c2, <<"definition", "externals", "options">>)
    IN
    IF m3 # NoKey THEN Raise(c2, KeyError(m3)) ELSE
    Done(SetItem(c2, "ir", generate(c2["definition"], c2["externals"], c2["options"])))

\* variant of IIRStage._make that checks the options after the transform
M_IIRMake(c) ==
    LET m1 == FirstMissing(c, <<"backend", "ir", "options">>) IN
    IF m1 # NoKey THEN Raise(c, KeyError(m1)) ELSE
    LET c1 == SetItem(c, "iir", transform(c["ir"], c["options"])) IN
    IF ~check_options(c["backend"], c["options"])
    THEN [ctx |-> c1, err |-> OptionError, transforms |-> 1]
    ELSE [ctx |-> c1, err |-> NoErr, transforms |-> 1]

\* variant of IIRStage._make that pops `ir` from the context
M_IIRMakePopsIr(c) ==
    LET m1 == FirstMissing(c, <<"backend", "options">>) IN
    IF m1 # NoKey THEN Raise(c, KeyError(m1)) ELSE
    IF ~check_options(c["backend"], c["options"]) THEN Raise(c, OptionError) ELSE
    LET m2 == FirstMissing(c, <<"ir", "options">>) IN
    IF m2 # NoKey THEN Raise(c, KeyError(m2)) ELSE
    [ctx |-> SetItem(DelItem(c, "ir"), "iir", transform(c["ir"], c["options"])),
     err |-> NoErr, transforms |-> 1]

\* IIRStage._make
IIRMake(c) ==
    LET m1 == FirstMissing(c, <<"backend", "options">>) IN
    IF m1 # NoKey THEN Raise(c, KeyError(m1)) ELSE
    IF ~check_options(c["backend"], c["options"]) THEN Raise(c, OptionError) ELSE
    LET m2 == FirstMissing(c, <<"ir", "options">>) IN
    IF m2 # NoKey THEN Raise(c, KeyError(m2)) ELSE
    [ctx |-> SetItem(c, "iir", transform(c["ir"], c["options"])),
     err |-> NoErr, transforms |-> 1]

\* SourceStage._make_py_module
MakePyModule(c) ==
    LET m1 == FirstMissing(c, <<"backend", "options">>) IN
    IF m1 # NoKey THEN Raise(c, KeyError(m1)) ELSE
    LET generator_options == as_dict(c["options"])
        c1 == SetItem(c, "generator_options", generator_options)
        m2 == FirstMissing(c1, <<"name", "id", "iir">>)
    IN
    IF m2 # NoKey THEN Raise(c1, KeyError(m2)) ELSE
    Done(SetItem(c1, "src",
                 (PyFileName(c1["name"]) :>
                      module_generate(c1["backend"], generator_options, c1["id"], c1["iir"]))))

\* SourceStage._make_lang_src, lines 215-218: "computation.src" is renamed
RenameComputation(src, extension) ==
    IF Has(src, "computation.src")
    THEN SetItem(DelItem(src, "computation.src"),
                 ComputationFileName(extension), src["computation.src"])
    ELSE src

\* variant of lines 219-221 that copies "bindings.cpp" and leaves it in `src`
M_MoveBindings(c) ==
    IF Has(c["src"], "bindings.cpp")
    THEN LET c1 == SetItem(c, "bindings_src", GetItem(c, "bindings_src", EmptyDict))
         IN  SetItem(c1, "bindings_src",
                     SetItem(c1["bindings_src"], "bindings.cpp", c1["src"]["bindings.cpp"]))
    ELSE c

\* SourceStage._make_lang_src, lines 219-221: "bindings.cpp" moves to bindings_src
MoveBindings(c) ==
    IF Has(c["src"], "bindings.cpp")
    THEN LET c1 == SetItem(c, "bindings_src", GetItem(c, "bindings_src", EmptyDict))
             stub == c1["src"]["bindings.cpp"]
             c2 == SetItem(c1, "src", DelItem(c1["src"], "bindings.cpp"))
         IN  SetItem(c2, "bindings_src", SetItem(c2["bindings_src"], "bindings.cpp", stub))
    ELSE c

\* SourceStage._make_lang_src
MakeLangSrc(c) ==
    LET m1 == FirstMissing(c, <<"backend", "id", "options", "iir">>) IN
    IF m1 # NoKey THEN Raise(c, KeyError(m1)) ELSE
    LET backend == c["backend"]
        c1 == SetItem(c, "src", pyext_generate(backend, c["id"], c["options"], c["iir"]))
        c2 == SetItem(c1, "src", RenameComputation(c1["src"], backend.SRC_EXTENSION))
    IN  Done(MoveBindings(c2))

\* SourceStage._make
SourceMake(c) ==
    IF ~Has(c, "backend") THEN Raise(c, KeyError("backend")) ELSE
    IF c["backend"].BINDINGS_LANGUAGES = <<>> THEN MakePyModule(c) ELSE MakeLangSrc(c)

\* variant of BindingsStage._make that always stores the empty string as "bindings.cpp"
M_BindingsMake(c) ==
    IF ~Has(c, "bindings") THEN Raise(c, KeyError("bindings")) ELSE
    IF ~InList("python", c["bindings"]) THEN Done(c) ELSE
    LET m1 == FirstMissing(c, <<"backend", "options", "name", "pyext_file_path">>) IN
    IF m1 # NoKey THEN Raise(c, KeyError(m1)) ELSE
    LET g1 == SetItem(as_dict(c["options"]), "pyext_module_name",
                      GetItem(c, "pyext_module_name", "_" \o c["name"]))
        generator_options == SetItem(g1, "pyext_file_path", c["pyext_file_path"])
        c1 == SetItem(c, "generator_options", generator_options)
        m2 == FirstMissing(c1, <<"name", "id", "iir">>)
    IN
    IF m2 # NoKey THEN Raise(c1, KeyError(m2)) ELSE
    LET python == ("bindings.cpp" :> EmptyText) @@
                  (PyFileName(c1["name"]) :>
                       module_generate(c1["backend"], generator_options, c1["id"], c1["iir"]))
    IN  Done(SetItem(c1, "bindings_src", ("python" :> python)))

\* BindingsStage._make
BindingsMake(c) ==
    IF ~Has(c, "bindings") THEN Raise(c, KeyError("bindings")) ELSE
    IF ~InList("python", c["bindings"]) THEN Done(c) ELSE
    LET m1 == FirstMissing(c, <<"backend", "options", "name", "pyext_file_path">>) IN
    IF m1 # NoKey THEN Raise(c, KeyError(m1)) ELSE
    LET g1 == SetItem(as_dict(c["options"]), "pyext_module_name",
                      GetItem(c, "pyext_module_name", "_" \o c["name"]))
        generator_options == SetItem(g1, "pyext_file_path", c["pyext_file_path"])
        c1 == SetItem(c, "generator_options", generator_options)
        stub == GetItem(GetItem(c1, "bindings_src", EmptyDict), "bindings.cpp", EmptyText)
        m2 == FirstMissing(c1, <<"name", "id", "iir">>)
    IN
    IF m2 # NoKey THEN Raise(c1, KeyError(m2)) ELSE
    LET python == ("bindings.cpp" :> stub) @@
                  (PyFileName(c1["name"]) :>
                       module_generate(c1["backend"], generator_options, c1["id"], c1["iir"]))
    IN  Done(SetItem(c1, "bindings_src", ("python" :> python)))

\* BuildStage.make: the _make of the stage's class
Make(kind, c) ==
    CASE kind = "Begin" -> BeginMake(c)
      [] kind = "IR" -> IRMake(c)
      [] kind = "IIR" -> IIRMake(c)
      [] kind = "Source" -> SourceMake(c)
      [] kind = "Bindings" -> BindingsMake(c)

-----------------------------------------------------------------------------
(* The stage machine *)

\* BuildStage.is_final, the default
BaseIsFinal(c) == FALSE

\* variant of SourceStage.is_final that ignores the `bindings` request
M_SourceIsFinal(c) ==
    IF c["backend"].BINDINGS_LANGUAGES # <<>> THEN FALSE ELSE TRUE

\* SourceStage.is_final; reads c["backend"]
SourceIsFinal(c) ==
    IF c["backend"].BINDINGS_LANGUAGES # <<>> /\ GetItem(c, "bindings", <<>>) # <<>>
    THEN FALSE
    ELSE TRUE

\* variant of BindingsStage.is_final that keeps the default
M_BindingsIsFinal(c) == FALSE

\* BindingsStage.is_final
BindingsIsFinal(c) == TRUE

\* is_final() of a stage of the given kind on the context c
IsFinal(kind, c) ==
    CASE kind = "Source" -> SourceIsFinal(c)
      [] kind = "Bindings" -> BindingsIsFinal(c)
      [] OTHER -> BaseIsFinal(c)

\* is_final() raises KeyError instead of returning
IsFinalRaises(kind, c) == kind = "Source" /\ ~Has(c, "backend")

\* next_stage() of each stage class
NextStage(kind) ==
    CASE kind = "Begin" -> "IR"
      [] kind = "IR" -> "IIR"
      [] kind = "IIR" -> "Source"
      [] kind = "Source" -> "Bindings"
      [] kind = "Bindings" -> "None"

\* the number of direct make() calls in the log
DirectMakes == Cardinality({i \in 1..Len(made) : made[i][2] = "make"})

\* the caller calls make() on the stage it holds
CallMake ==
    /\ err = NoErr
    /\ stage \in StageKinds
    /\ DirectMakes < MaxDirectMakes
    /\ LET r == Make(stage, ctx) IN
        /\ ctx' = r.ctx
        /\ err' = r.err
        /\ transformRuns' = transformRuns + r.transforms
        /\ attempts' = attempts + 1
        /\ made' = IF r.err = NoErr THEN Append(made, <<stage, "make">>) ELSE made
        /\ stage' = stage
    /\ call' = <<"make", stage>>
    /\ UNCHANGED <<definition, kwargs, ctx0, start, genVars, argVars, anaVars, twoVars, sigVars, shimVars>>

\* variant of make_next that returns the next stage although its make raised
M_MakeNextStage(next) ==
    IF next = "None"
    THEN /\ err' = TypeError
         /\ call' = <<"make_next", "None">>
         /\ UNCHANGED <<ctx, stage, made, attempts, transformRuns>>
    ELSE LET r == Make(next, ctx) IN
         /\ call' = <<"make_next", next>>
         /\ ctx' = r.ctx
         /\ err' = r.err
         /\ transformRuns' = transformRuns + r.transforms
         /\ attempts' = attempts + 1
         /\ made' = IF r.err = NoErr THEN Append(made, <<next, "make_next">>) ELSE made
         /\ stage' = next

\* BuildStage.make_next, line 97: the next stage is constructed on self.ctx and made
MakeNextStage(next) ==
    IF next = "None"
    THEN /\ err' = TypeError
         /\ call' = <<"make_next", "None">>
         /\ UNCHANGED <<ctx, stage, made, attempts, transformRuns>>
    ELSE LET r == Make(next, ctx) IN
         /\ call' = <<"make_next", next>>
         /\ ctx' = r.ctx
         /\ err' = r.err
         /\ transformRuns' = transformRuns + r.transforms
         /\ attempts' = attempts + 1
         /\ made' = IF r.err = NoErr THEN Append(made, <<next, "make_next">>) ELSE made
         /\ stage' = IF r.err = NoErr THEN next ELSE stage

\* the caller calls make_next() on the stage it holds and keeps what it returns
CallMakeNext ==
    /\ err = NoErr
    /\ stage \in StageKinds
    /\ IF IsFinalRaises(stage, ctx)
       THEN /\ err' = KeyError("backend")
            /\ call' = <<"make_next", "None">>
            /\ UNCHANGED <<ctx, stage, made, attempts, transformRuns>>
       ELSE IF IsFinal(stage, ctx)
            THEN /\ stage' = "None"
                 /\ call' = <<"make_next", "None">>
                 /\ UNCHANGED <<ctx, made, attempts, transformRuns, err>>
            ELSE MakeNextStage(NextStage(stage))
    /\ UNCHANGED <<definition, kwargs, ctx0, start, genVars, argVars, anaVars, twoVars, sigVars, shimVars>>

-----------------------------------------------------------------------------
(* The build requests of the model *)

Definitions ==
    { ("__name__" :> "copy") @@ ("__module__" :> "app"),
      ("__name__" :> "copy") }

\* a keyword argument: absent for the empty set, else present with the
\* value in the set
Kwarg(k, s) == [x \in {k : v \in s} |-> CHOOSE v \in s : TRUE]

UserOptions ==
    [name |-> "copy", module |-> "app", build_info |-> EmptyDict, backend_opts |-> {"verbose"}]

KwName == {{}, {<<>>}, {<<"user_name">>}}
KwModule == {{}, {<<"user_module">>}}
KwQualifiedName == {{}, {<<"user.qualified">>}}
KwOptions == {{}, {<<UserOptions>>}}
KwFrontend == {{}, {<<"gtscript">>}}
KwBackend == {{}} \cup {{<<b>>} : b \in Backends}
KwBindings == {{}, {<< <<>> >>}, {<< <<"python">> >>}, {<< <<"c">> >>}}
KwPyextFilePath == {{}, {<<"/cache/_copy.so">>}}
KwPyextModuleName == {{}, {<<"_copy_pyext">>}}

\* A build request: the caller constructs a BuildContext from a definition and
\* configuration keys (the keys the stages write start absent), constructs a
\* stage of any kind on it, and calls make() and make_next() on the stage it
\* holds until one of them raises or make_next() returns None.
PipeInit ==
    /\ definition \in Definitions
    /\ \E n \in KwName, m \in KwModule, q \in KwQualifiedName, o \in KwOptions,
          f \in KwFrontend, b \in KwBackend, l \in KwBindings,
          p \in KwPyextFilePath, pm \in KwPyextModuleName :
          kwargs = Kwarg("name", n) @@ Kwarg("module", m) @@ Kwarg("qualified_name", q)
                   @@ Kwarg("options", o) @@ Kwarg("frontend", f) @@ Kwarg("backend", b)
                   @@ Kwarg("bindings", l) @@ Kwarg("pyext_file_path", p)
                   @@ Kwarg("pyext_module_name", pm)
    /\ ctx0 = BuildContextInit(definition, kwargs)
    /\ ctx = ctx0
    /\ start \in StageKinds
    /\ stage = start
    /\ made = <<>>
    /\ attempts = 0
    /\ transformRuns = 0
    /\ err = NoErr
    /\ call = <<"none", "None">>

\* the variables of the module generator while none is constructed
GenIdle ==
    /\ genKind = "None"
    /\ genInitBuilder = <<>>
    /\ genBuilder = <<>>
    /\ genArgsData = <<>>
    /\ genPyext = <<>>
    /\ genLog = <<>>

\* the variables of make_args_data_from_iir while it is not called
ArgsIdle == implementation_ir = <<>> /\ data = <<>> /\ implementation = <<>>

\* the variables of the access and boundary analysis while it is not run
AnaIdle == program = <<>> /\ runs = <<>>

\* the variables of the two builds while they do not run
TwoIdle ==
    /\ contexts = <<>>
    /\ dicts = <<>>
    /\ boundDict = <<>>
    /\ stages = <<>>
    /\ held = <<>>
    /\ errs = <<>>
    /\ alone = <<>>

\* the variables of generate_signature while it is not called
SigIdle == generator = <<>> /\ signature = <<>>

\* the variables of the subscript shims while none is asked
ShimIdle == subscript = <<>> /\ zero_point = <<>>

\* the variables of the build while no build runs
PipeIdle ==
    /\ definition = <<>>
    /\ kwargs = <<>>
    /\ ctx0 = <<>>
    /\ ctx = <<>>
    /\ start = "None"
    /\ stage = "None"
    /\ made = <<>>
    /\ attempts = 0
    /\ transformRuns = 0
    /\ err = NoErr
    /\ call = <<"none", "None">>

Init == PipeInit /\ GenIdle /\ ArgsIdle /\ AnaIdle /\ TwoIdle /\ SigIdle /\ ShimIdle

Next == CallMake \/ CallMakeNext

Spec == Init /\ [][Next]_vars

\* the caller keeps calling make_next() for as long as it holds a stage
FairSpec == Spec /\ WF_vars(CallMakeNext)

-----------------------------------------------------------------------------
(* Two builds side by side.  Objects have an identity here: a BuildContext  *)
(* and a stage are objects on a heap, and a dict the caller passes as       *)
(* `bindings_src` is one object however many contexts are given it          *)
(* (BuildContext.__init__ copies the keyword arguments' references).        *)

\* BuildStage.__init__(ctx)
BuildStage(kind, ctx_ref, from) == [kind |-> kind, ctx |-> ctx_ref, from |-> from]

\* the _data of the context object `ref` as a lookup sees it
View(ref) ==
    IF boundDict[ref] > 0
    THEN SetItem(contexts[ref], "bindings_src", dicts[boundDict[ref]])
    ELSE contexts[ref]

\* variant of make_next that constructs the next stage on a copy of the context
M_NextStageObject(self, from, heap, bound) ==
    [stage |-> BuildStage(NextStage(self.kind), Len(heap) + 1, from),
     contexts |-> Append(heap, heap[self.ctx]),
     boundDict |-> Append(bound, bound[self.ctx])]

\* BuildStage.make_next, line 97: self.next_stage()(self.ctx), the new stage
\* object and the heap of contexts after its construction
NextStageObject(self, from, heap, bound) ==
    [stage |-> BuildStage(NextStage(self.kind), self.ctx, from),
     contexts |-> heap,
     boundDict |-> bound]

\* BindingsStage._make, line 279: the key `bindings_src` is bound to a new
\* dict; every other write to it (line 221) changes the dict it is bound to
Rebinds(kind, c, r) ==
    kind = "Bindings" /\ r.err = NoErr /\ Has(c, "bindings") /\ InList("python", c["bindings"])

RECURSIVE RunAlone(_, _)
\* the context a build reaches when make_next() is called from a stage of the
\* given kind until it returns None or raises, nothing else running
RunAlone(kind, c) ==
    IF IsFinalRaises(kind, c) THEN c
    ELSE IF IsFinal(kind, c) THEN c
    ELSE LET r == Make(NextStage(kind), c)
         IN  IF r.err # NoErr THEN r.ctx ELSE RunAlone(NextStage(kind), r.ctx)

\* the keyword arguments of a build request of the two-build model
Request(backend, bindings) ==
    ("frontend" :> <<"gtscript">>) @@ ("backend" :> <<backend>>)
    @@ Kwarg("bindings", bindings) @@ ("pyext_file_path" :> <<"/cache/_copy.so">>)

\* Two callers construct a BuildContext each, from a definition, a backend and
\* a bindings request; as `bindings_src` they pass nothing, or the first
\* alone passes an empty dict, or both pass one and the same empty dict, or
\* each passes an empty dict of its own; each constructs a BeginStage on its
\* context.
TwoInit ==
    /\ dicts = <<EmptyDict, EmptyDict>>
    /\ \E d1, d2 \in Definitions, b1, b2 \in Backends,
          l1, l2 \in {{}, {<< <<"python">> >>}} :
          contexts = << BuildContextInit(d1, Request(b1, l1)),
                        BuildContextInit(d2, Request(b2, l2)) >>
    /\ boundDict \in {<<0, 0>>, <<1, 0>>, <<1, 1>>, <<1, 2>>}
    /\ stages = << <<BuildStage("Begin", 1, 0)>>, <<BuildStage("Begin", 2, 0)>> >>
    /\ held = <<1, 1>>
    /\ errs = <<NoErr, NoErr>>
    /\ alone = <<RunAlone("Begin", View(1)), RunAlone("Begin", View(2))>>

\* the caller of build b calls make_next() on the stage it holds and keeps
\* what it returns
MakeNextOf(b) ==
    /\ held[b] > 0
    /\ errs[b] = NoErr
    /\ LET self == stages[b][held[b]]
           c == View(self.ctx)
       IN  IF IsFinalRaises(self.kind, c)
           THEN /\ errs' = [errs EXCEPT ![b] = KeyError("backend")]
                /\ UNCHANGED <<contexts, dicts, boundDict, stages, held>>
           ELSE IF IsFinal(self.kind, c)
           THEN /\ held' = [held EXCEPT ![b] = 0]
                /\ UNCHANGED <<contexts, dicts, boundDict, stages, errs>>
           ELSE LET o == NextStageObject(self, held[b], contexts, boundDict)
                    ref == o.stage.ctx
                    d == o.boundDict[ref]
                    c1 == IF d > 0
                          THEN SetItem(o.contexts[ref], "bindings_src", dicts[d])
                          ELSE o.contexts[ref]
                    r == Make(o.stage.kind, c1)
                IN  /\ stages' = [stages EXCEPT ![b] = Append(@, o.stage)]
                    /\ IF d > 0 /\ ~Rebinds(o.stage.kind, c1, r)
                       THEN /\ contexts' = [o.contexts EXCEPT
                                               ![ref] = DelItem(r.ctx, "bindings_src")]
                            /\ dicts' = [dicts EXCEPT ![d] = r.ctx["bindings_src"]]
                            /\ boundDict' = o.boundDict
                       ELSE /\ contexts' = [o.contexts EXCEPT ![ref] = r.ctx]
                            /\ dicts' = dicts
                            /\ boundDict' = [o.boundDict EXCEPT ![ref] = 0]
                    /\ errs' = [errs EXCEPT ![b] = r.err]
                    /\ held' = IF r.err = NoErr
                               THEN [held EXCEPT ![b] = Len(stages[b]) + 1]
                               ELSE held
    /\ UNCHANGED <<alone, pipeVars, genVars, argVars, anaVars, sigVars, shimVars>>

TwoSpecInit == TwoInit /\ PipeIdle /\ GenIdle /\ ArgsIdle /\ AnaIdle /\ SigIdle /\ ShimIdle

TwoNext == \E b \in {1, 2} : MakeNextOf(b)

TwoSpec == TwoSpecInit /\ [][TwoNext]_vars

-----------------------------------------------------------------------------
(* make_args_data_from_iir (module_generator.py) *)

\* an ordered dict is the sequence of its <<key, value>> items in insertion
\* order; od[k] = v keeps the place of a key that is there and appends a new one
OdHas(od, k) == \E i \in 1..Len(od) : od[i][1] = k

OdSet(od, k, v) ==
    IF OdHas(od, k)
    THEN [i \in 1..Len(od) |-> IF od[i][1] = k THEN <<k, v>> ELSE od[i]]
    ELSE Append(od, <<k, v>>)

\* od.keys(), in order
OdKeys(od) == [i \in 1..Len(od) |-> od[i][1]]

\* od[k]
OdGet(od, k) == od[CHOOSE i \in 1..Len(od) : od[i][1] = k][2]

\* ModuleData()
EmptyModuleData == [field_info |-> <<>>, parameter_info |-> <<>>, unreferenced |-> {}]

\* FieldInfo(access=, boundary=, axes=, dtype=) of the field `name`; a present
\* entry is <<info>>, the absent marker None is <<>>
FieldInfo(ir, name, access) ==
    << [access |-> access, boundary |-> <<"to_boundary", name>>,
        axes |-> <<"axes", name>>, dtype |-> <<"dtype", name>>] >>

\* ParameterInfo(dtype=) of the parameter `name`
ParameterInfo(ir, name) == << [dtype |-> <<"dtype", name>>] >>

\* variant of the collection of out_fields that visits the first multi-stage only
M_OutFields(ir) ==
    IF ir.multi_stages = <<>> THEN {}
    ELSE LET ms == ir.multi_stages[1] IN
         UNION { UNION { { st.accessors[a].symbol :
                             a \in { a \in 1..Len(st.accessors) :
                                       /\ st.accessors[a].kind = "FieldAccessor"
                                       /\ st.accessors[a].intent = "READ_WRITE" } }
                         : st \in { sg.stages[k] : k \in 1..Len(sg.stages) } }
                 : sg \in { ms.groups[j] : j \in 1..Len(ms.groups) } }

\* lines 38-47: the fields some accessor of some stage writes
OutFields(ir) ==
    UNION { UNION { UNION { { st.accessors[a].symbol :
                                a \in { a \in 1..Len(st.accessors) :
                                          /\ st.accessors[a].kind = "FieldAccessor"
                                          /\ st.accessors[a].intent = "READ_WRITE" } }
                            : st \in { sg.stages[k] : k \in 1..Len(sg.stages) } }
                    : sg \in { ms.groups[j] : j \in 1..Len(ms.groups) } }
            : ms \in { ir.multi_stages[i] : i \in 1..Len(ir.multi_stages) } }

\* variant of the loop body that skips an unreferenced argument
M_ArgEntry(ir, d, name, out_fields) ==
    IF name \in ir.fields
    THEN IF name \notin ir.unreferenced
         THEN [d EXCEPT !.field_info =
                  OdSet(@, name, FieldInfo(ir, name, IF name \in out_fields
                                                     THEN "READ_WRITE" ELSE "READ_ONLY"))]
         ELSE d
    ELSE IF name \notin ir.unreferenced
         THEN [d EXCEPT !.parameter_info = OdSet(@, name, ParameterInfo(ir, name))]
         ELSE d

\* lines 50-68: the body of the loop over api_signature, for the argument `name`
ArgEntry(ir, d, name, out_fields) ==
    IF name \in ir.fields
    THEN LET access == IF name \in out_fields THEN "READ_WRITE" ELSE "READ_ONLY" IN
         IF name \notin ir.unreferenced
         THEN [d EXCEPT !.field_info = OdSet(@, name, FieldInfo(ir, name, access))]
         ELSE [d EXCEPT !.field_info = OdSet(@, name, <<>>)]
    ELSE IF name \notin ir.unreferenced
         THEN [d EXCEPT !.parameter_info = OdSet(@, name, ParameterInfo(ir, name))]
         ELSE [d EXCEPT !.parameter_info = OdSet(@, name, <<>>)]

RECURSIVE ArgLoop(_, _, _, _)
\* lines 49-68: the loop over api_signature from the i-th argument on
ArgLoop(ir, d, i, out_fields) ==
    IF i > Len(ir.api_signature)
    THEN d
    ELSE ArgLoop(ir, ArgEntry(ir, d, ir.api_signature[i], out_fields), i + 1, out_fields)

\* make_args_data_from_iir, lines 34-72
make_args_data_from_iir(ir) ==
    LET d == ArgLoop(ir, EmptyModuleData, 1, OutFields(ir))
    IN  [d EXCEPT !.unreferenced = ir.unreferenced]

\* the names an argument can have
NamePool == <<"a", "b", "c", "d", "e", "f">>

ArgNames == {NamePool[i] : i \in 1..MaxArgs}

\* the declared signatures: no two arguments of a signature share a name
Signatures ==
    UNION { { sig \in [1..n -> ArgNames] : \A i, j \in 1..n : sig[i] = sig[j] => i = j }
            : n \in 0..MaxArgs }

Range(seq) == {seq[i] : i \in 1..Len(seq)}

\* the accessors of a stage: one per name of `names`, in the order of `order`
Accessors(order, names, fields, intent) ==
    LET picked == SelectSeq(order, LAMBDA n : n \in names)
    IN  [i \in 1..Len(picked) |->
            IF picked[i] \in fields
            THEN [kind |-> "FieldAccessor", symbol |-> picked[i], intent |-> intent]
            ELSE [kind |-> "ParameterAccessor", symbol |-> picked[i]]]

\* an implementation IR with the given signature, fields and unreferenced
\* arguments, whose stages write the fields `written`: every referenced name
\* is read in the first stage of the first multi-stage, the written fields are
\* written in a second multi-stage; no multi-stage when nothing is referenced
ImplementationIR(sig, fields, unreferenced, written) ==
    LET order == sig \o <<"tmp">>
        referenced == (Range(sig) \cup fields) \ unreferenced
        reads == [groups |-> << [stages |->
                     << [accessors |-> Accessors(order, referenced, fields, "READ_ONLY")] >>] >>]
        writes == [groups |-> << [stages |-> << [accessors |-> <<>>] >>],
                                 [stages |->
                     << [accessors |-> Accessors(order, written, fields, "READ_WRITE")] >>] >>]
    IN  [api_signature |-> sig,
         fields |-> fields,
         parameters |-> Range(sig) \ fields,
         unreferenced |-> unreferenced,
         multi_stages |-> IF referenced = {} THEN <<>>
                          ELSE IF written = {} THEN <<reads>> ELSE <<reads, writes>>]

ArgsInit ==
    /\ \E sig \in Signatures :
       \E apiFields \in SUBSET Range(sig), temporaries \in {{}, {"tmp"}} :
       \E unreferenced \in SUBSET Range(sig) :
       \E written \in SUBSET ((apiFields \cup temporaries) \ unreferenced) :
          implementation_ir =
              ImplementationIR(sig, apiFields \cup temporaries, unreferenced, written)
    /\ data = <<>>
    /\ implementation = <<>>

\* make_args_data_from_iir is called on the implementation IR
CallMakeArgsData ==
    /\ data = <<>>
    /\ data' = <<make_args_data_from_iir(implementation_ir)>>
    /\ UNCHANGED <<implementation_ir, implementation, pipeVars, genVars, anaVars, twoVars, sigVars, shimVars>>

ArgsSpecInit == ArgsInit /\ PipeIdle /\ GenIdle /\ AnaIdle /\ TwoIdle /\ SigIdle /\ ShimIdle


-----------------------------------------------------------------------------
(* BaseModuleGenerator and PyExtModuleGenerator (module_generator.py) *)

RuntimeError == <<"RuntimeError", "Builder attribute not initialized!">>
AttributeError == <<"AttributeError", "'NoneType' object has no attribute">>

GenKinds == {"Base", "PyExt", "CUDAPyExt"}

\* the stencil builders a generator can be bound to
Builders ==
    { [class_name |-> "copy__gtx86", format_source |-> TRUE],
      [class_name |-> "copy__gtcuda", format_source |-> FALSE] }

\* the ModuleData a call can pass
ArgsDatas ==
    { make_args_data_from_iir(ImplementationIR(<<"a", "b">>, {"a"}, {"b"}, {"a"})) }

\* the keyword arguments a call can pass besides the builder
GenKwargs ==
    UNION { [K -> {"_copy_pyext"}] : K \in SUBSET {"pyext_module_name", "pyext_file_path"} }

\* variant of the builder property without the check
M_BuilderProperty(_builder) == <<"return", _builder>>

\* BaseModuleGenerator.builder: <<"raise", exception>> or <<"return", self._builder>>
BuilderProperty(_builder) ==
    IF _builder = <<>> THEN <<"raise", RuntimeError>> ELSE <<"return", _builder>>

\* gt_utils.text.format_source(module_source, line_length=)
format_source(text) == Text("formatted", text)

\* BaseModuleGenerator.__call__, lines 106-131, on a generator whose _builder
\* and args_data are set: <<"raise", exception>> or <<"return", module_source>>
Render(kind, _builder, args_data, pyext) ==
    LET b == BuilderProperty(_builder) IN
    IF b[1] = "raise" THEN b
    ELSE IF b[2] = <<>> THEN <<"raise", AttributeError>>
    ELSE LET builder == b[2][1]
             module_source == Text("stencil_module.py.in", <<kind, builder, args_data, pyext>>)
         IN  <<"return", IF builder.format_source THEN format_source(module_source)
                         ELSE module_source>>

\* BaseModuleGenerator.__call__(args_data, builder, **kwargs): the generator's
\* state after the call and what the call raised or returned
BaseCall(kind, g, args_data, builder, kw) ==
    LET _builder == IF builder # <<>> THEN builder ELSE g._builder
    IN  [_builder |-> _builder, args_data |-> args_data, pyext |-> g.pyext,
         result |-> Render(kind, _builder, args_data, g.pyext)]

\* PyExtModuleGenerator.__call__(args_data, builder, **kwargs)
PyExtCall(kind, g, args_data, builder, kw) ==
    IF ~Has(kw, "pyext_module_name")
    THEN [g EXCEPT !.result = <<"raise", KeyError("pyext_module_name")>>]
    ELSE LET g1 == [g EXCEPT !.pyext = <<kw["pyext_module_name"], g.pyext[2]>>] IN
         IF ~Has(kw, "pyext_file_path")
         THEN [g1 EXCEPT !.result = <<"raise", KeyError("pyext_file_path")>>]
         ELSE BaseCall(kind, [g1 EXCEPT !.pyext = <<g1.pyext[1], kw["pyext_file_path"]>>],
                       args_data, builder, kw)

\* __call__ of the generator's class
GeneratorCall(kind, g, args_data, builder, kw) ==
    IF kind = "Base"
    THEN BaseCall(kind, g, args_data, builder, kw)
    ELSE PyExtCall(kind, g, args_data, builder, kw)

\* BaseModuleGenerator.__init__(builder) and PyExtModuleGenerator.__init__()
GenInit ==
    /\ genKind \in GenKinds
    /\ genInitBuilder \in IF genKind = "Base"
                          THEN {<<>>} \cup {<<b>> : b \in Builders}
                          ELSE {<<>>}
    /\ genBuilder = genInitBuilder
    /\ genArgsData = EmptyModuleData
    /\ genPyext = IF genKind = "Base" THEN <<>> ELSE <<"", "">>
    /\ genLog = <<>>

\* the generator is called
CallGenerator ==
    /\ genKind \in GenKinds
    /\ Len(genLog) < MaxGenCalls
    /\ \E args_data \in ArgsDatas, builder \in {<<>>} \cup {<<b>> : b \in Builders},
          kw \in GenKwargs :
          LET g == [_builder |-> genBuilder, args_data |-> genArgsData, pyext |-> genPyext,
                    result |-> <<>>]
              r == GeneratorCall(genKind, g, args_data, builder, kw)
          IN  /\ genBuilder' = r._builder
              /\ genArgsData' = r.args_data
              /\ genPyext' = r.pyext
              /\ genLog' = Append(genLog, [builder |-> builder, kwargs |-> kw,
                                           bound |-> genBuilder, result |-> r.result])
    /\ UNCHANGED <<genKind, genInitBuilder, pipeVars, argVars, anaVars, twoVars, sigVars, shimVars>>

GenSpecInit == GenInit /\ PipeIdle /\ ArgsIdle /\ AnaIdle /\ TwoIdle /\ SigIdle /\ ShimIdle

GenSpec == GenSpecInit /\ [][CallGenerator]_vars

\* a line of generated source: its text and, for a call, the arguments of the call
Line(text, args) == [text |-> text, args |-> args]

\* "list(_origin_['{}'])".format(name)
OriginOf(name) == "list(_origin_['" \o name \o "'])"

RECURSIVE M_ImplArgs(_, _, _, _, _)
\* variant of the loop over the signature that does not skip unreferenced arguments
M_ImplArgs(api_signature, api_fields, unreferenced, args, i) ==
    IF i > Len(api_signature) THEN args
    ELSE LET name == api_signature[i].name
         IN  M_ImplArgs(api_signature, api_fields, unreferenced,
                        IF name \in api_fields
                        THEN args \o <<name, OriginOf(name)>>
                        ELSE Append(args, name),
                        i + 1)

RECURSIVE ImplArgs(_, _, _, _, _)
\* generate_implementation, lines 281-287: the loop over api_signature from
\* the i-th argument on
ImplArgs(api_signature, api_fields, unreferenced, args, i) ==
    IF i > Len(api_signature) THEN args
    ELSE LET name == api_signature[i].name
         IN  ImplArgs(api_signature, api_fields, unreferenced,
                      IF name \notin unreferenced
                      THEN IF name \in api_fields
                           THEN args \o <<name, OriginOf(name)>>
                           ELSE Append(args, name)
                      ELSE args,
                      i + 1)

\* PyExtModuleGenerator.generate_implementation: the lines of the source
PyExtGenerateImplementation(builder, args_data) ==
    LET definition_ir == builder.definition_ir
        api_fields == { definition_ir.api_fields[i].name :
                           i \in 1..Len(definition_ir.api_fields) }
        args == ImplArgs(definition_ir.api_signature, api_fields,
                         args_data.unreferenced, <<>>, 1)
    IN  IF builder.implementation_ir.has_effect
        THEN << Line("", <<>>),
                Line("# Load or generate a GTComputation object for the current domain size",
                     <<>>),
                Line("pyext_module.run_computation",
                     <<"list(_domain_)">> \o args \o <<"exec_info">>) >>
        ELSE << Line("", <<>>) >>

\* CUDAPyExtModuleGenerator.generate_implementation
CUDAGenerateImplementation(builder, args_data) ==
    PyExtGenerateImplementation(builder, args_data)
    \o << Line("", <<>>), Line("cupy.cuda.Device(0).synchronize()", <<>>) >>

\* generate_implementation of the generator's class
generate_implementation(kind, builder, args_data) ==
    IF kind = "CUDAPyExt"
    THEN CUDAGenerateImplementation(builder, args_data)
    ELSE PyExtGenerateImplementation(builder, args_data)

\* the definition IR of the stencil whose implementation IR is ir: the
\* declared arguments and, in declaration order, those that are fields
DefinitionIR(ir) ==
    [api_signature |-> [i \in 1..Len(ir.api_signature) |-> [name |-> ir.api_signature[i]]],
     api_fields |-> LET fs == SelectSeq(ir.api_signature, LAMBDA n : n \in ir.fields)
                    IN  [i \in 1..Len(fs) |-> [name |-> fs[i]]]]

\* a native-extension generator bound to the stencil's builder and holding
\* the ModuleData made from its implementation IR generates the implementation
CallGenerateImplementation ==
    /\ data # <<>>
    /\ implementation = <<>>
    /\ \E kind \in {"PyExt", "CUDAPyExt"}, has_effect \in BOOLEAN :
          LET builder == [definition_ir |-> DefinitionIR(implementation_ir),
                          implementation_ir |-> [has_effect |-> has_effect]]
          IN  implementation' =
                  << [kind |-> kind, has_effect |-> has_effect,
                      source |-> generate_implementation(kind, builder, data[1])] >>
    /\ UNCHANGED <<implementation_ir, data, pipeVars, genVars, anaVars, twoVars, sigVars, shimVars>>

ArgsNext == CallMakeArgsData \/ CallGenerateImplementation

ArgsSpec == ArgsSpecInit /\ [][ArgsNext]_vars

\* gt_ir.Empty, the default of an argument that has none; a default is <<v>>
Empty == <<>>

\* str.join
RECURSIVE Join(_, _)
Join(items, sep) ==
    IF items = <<>> THEN ""
    ELSE IF Len(items) = 1 THEN items[1]
    ELSE items[1] \o sep \o Join(Tail(items), sep)

\* "{name}={default}".format(name=arg.name, default=arg.default)
NameDefault(arg) == arg.name \o "=" \o ToString(arg.default[1])

RECURSIVE SigLoop(_, _, _, _)
\* generate_signature, lines 214-226: the loop over api_signature from the
\* i-th argument on; gives <<args, keyword_args>>
SigLoop(api_signature, args, keyword_args, i) ==
    IF i > Len(api_signature) THEN <<args, keyword_args>>
    ELSE LET arg == api_signature[i]
             text == IF arg.default # Empty THEN NameDefault(arg) ELSE arg.name
         IN  IF arg.is_keyword
             THEN SigLoop(api_signature, args, Append(keyword_args, text), i + 1)
             ELSE SigLoop(api_signature, Append(args, text), keyword_args, i + 1)

\* variant of generate_signature that extends args with keyword_args whether
\* or not a keyword argument was found
M_generate_signature(self) ==
    LET looped == SigLoop(self.builder.definition_ir.api_signature, <<>>, <<"*">>, 1)
    IN  Join(looped[1] \o looped[2], ", ")

\* BaseModuleGenerator.generate_signature
generate_signature(self) ==
    LET looped == SigLoop(self.builder.definition_ir.api_signature, <<>>, <<"*">>, 1)
        args == IF Len(looped[2]) > 1 THEN looped[1] \o looped[2] ELSE looped[1]
    IN  Join(args, ", ")

\* the defaults an argument can have
Defaults == {Empty, <<1>>}

\* a generator bound to a builder whose definition IR declares the arguments
\* of a signature, each positional or keyword, with or without a default,
\* and holding args_data that reports some of them unreferenced
SigInit ==
    /\ \E sig \in Signatures :
       \E is_keyword \in [1..Len(sig) -> BOOLEAN], default \in [1..Len(sig) -> Defaults] :
       \E unreferenced \in SUBSET Range(sig) :
          generator =
              [builder |-> [definition_ir |-> [api_signature |->
                               [i \in 1..Len(sig) |->
                                   [name |-> sig[i], is_keyword |-> is_keyword[i],
                                    default |-> default[i]]]]],
               args_data |-> [unreferenced |-> unreferenced]]
    /\ signature = <<>>

\* generate_signature is called on the generator
CallGenerateSignature ==
    /\ signature = <<>>
    /\ signature' = <<generate_signature(generator)>>
    /\ UNCHANGED <<generator, pipeVars, genVars, argVars, anaVars, twoVars, shimVars>>

SigSpecInit == SigInit /\ PipeIdle /\ GenIdle /\ ArgsIdle /\ AnaIdle /\ TwoIdle /\ ShimIdle

SigNext == CallGenerateSignature

SigSpec == SigSpecInit /\ [][SigNext]_vars

-----------------------------------------------------------------------------
(* The version shims for subscripts (utils/astshims.py).  An AST node is a   *)
(* record of its class and its attributes; hasattr is membership of the      *)
(* record's DOMAIN.  A value a shim reads off a node is <<v>>, None is <<>>. *)

hasattr(node, attribute) == attribute \in DOMAIN node

isinstance(node, class) == node.class = class

\* the interpreter versions: ast gives ast.Num up to 3.7, ast.Constant (whose
\* n and s alias value) from 3.8 on, and drops ast.Index in 3.9
Versions == {"3.7", "3.8", "3.9"}

\* the node ast.parse gives for the integer constant v
ConstNode(version, v) ==
    IF version = "3.7"
    THEN [class |-> "Num", n |-> v]
    ELSE [class |-> "Constant", value |-> v, n |-> v, s |-> v]

\* the node ast.parse gives for the slice of a subscript of integer constants
Parse(version, sub) ==
    LET elts == [i \in 1..Len(sub.index) |-> ConstNode(version, sub.index[i])]
        value == IF sub.multi THEN [class |-> "Tuple", elts |-> elts] ELSE elts[1]
    IN  IF version = "3.9" THEN value ELSE [class |-> "Index", value |-> value]

\* _Py38ConstShims.get_value
Py38GetValue(node) ==
    IF hasattr(node, "n") THEN <<node.n>>
    ELSE IF hasattr(node, "s") THEN <<node.s>>
    ELSE IF hasattr(node, "value") THEN <<node.value>>
    ELSE <<>>

\* _Py39ConstShims.get_value
Py39GetValue(node) == <<node.value>>

\* the truth value of what get_value returned
Truthy(value) == value # <<>> /\ value[1] # 0

\* _Py38SliceShims.is_multi_dim
Py38IsMultiDim(node) ==
    \/ hasattr(node, "value") /\ isinstance(node.value, "Tuple")
    \/ isinstance(node, "ExtSlice")

\* _Py38SliceShims.get_dims; called on multi-dimensional nodes only
Py38GetDims(node) == IF hasattr(node, "dims") THEN node.dims ELSE node.value.elts

\* _Py38SliceShims.is_zero_point
Py38IsZeroPoint(node) ==
    IF Py38IsMultiDim(node) /\ ~isinstance(node, "ExtSlice")
    THEN \A i \in 1..Len(Py38GetDims(node)) : Py38GetValue(Py38GetDims(node)[i]) = <<0>>
    ELSE IF hasattr(node, "value")
    THEN Py38GetValue(node.value) = <<0>>
    ELSE FALSE

\* _Py39SliceShims.is_multi_dim
Py39IsMultiDim(node) == isinstance(node, "Tuple")

\* _Py39SliceShims.get_dims; called on multi-dimensional nodes only
Py39GetDims(node) == node.elts

\* _Py39SliceShims.is_zero_point
Py39IsZeroPoint(node) ==
    IF Py39IsMultiDim(node)
    THEN \A i \in 1..Len(Py39GetDims(node)) : Truthy(Py39GetValue(Py39GetDims(node)[i]))
    ELSE Py39GetValue(node) = <<0>>

\* get_version_shims and Slice.is_zero_point of the shim it picks
IsZeroPoint(version, node) ==
    IF version \in {"3.7", "3.8"} THEN Py38IsZeroPoint(node) ELSE Py39IsZeroPoint(node)

\* the index constants
IndexConsts == 0..MaxConst

\* the subscripts of integer constants: x[i] and x[i, j, ...], x[()] included
Subscripts ==
    { [multi |-> FALSE, index |-> <<v>>] : v \in IndexConsts }
    \cup UNION { { [multi |-> TRUE, index |-> index] : index \in [1..n -> IndexConsts] }
                 : n \in 0..MaxDims }

ShimInit ==
    /\ subscript \in Subscripts
    /\ zero_point = <<>>

\* the subscript is parsed under one more interpreter version and the shim
\* that version gets is asked whether it is the zero point
CallIsZeroPoint ==
    /\ \E version \in Versions \ DOMAIN zero_point :
          zero_point' =
              [v \in DOMAIN zero_point \cup {version} |->
                  IF v = version THEN IsZeroPoint(version, Parse(version, subscript))
                  ELSE zero_point[v]]
    /\ UNCHANGED <<subscript, pipeVars, genVars, argVars, anaVars, twoVars, sigVars>>

ShimSpecInit ==
    ShimInit /\ PipeIdle /\ GenIdle /\ ArgsIdle /\ AnaIdle /\ TwoIdle /\ SigIdle

ShimNext == CallIsZeroPoint

ShimSpec == ShimSpecInit /\ [][ShimNext]_vars

-----------------------------------------------------------------------------
(* The access and boundary analysis: Access Collector and Boundary          *)
(* Resolver.  Their code is not among the sources; they are modelled from   *)
(* sections 3, 4.1 and 4.2 of the specification and from the tests that     *)
(* build a program and call them.                                           *)

\* CartesianOffset(i=, j=, k=)
CartesianOffset(i, j, k) == <<i, j, k>>

\* the offset (0, 0, 0)
ZeroOffset == CartesianOffset(0, 0, 0)

\* FieldAccess(name=, offset=)
FieldAccess(name, offset) == [name |-> name, offset |-> offset]

\* AssignStmt(left=, right=): `right` is the sequence of the field accesses of
\* the right-hand expression
AssignStmt(left, right) == [left |-> left, right |-> right]

\* HorizontalExecution(body=, mask=): the mask is <<access>>, None is <<>>
HorizontalExecution(body, mask) == [body |-> body, mask |-> mask]

VerticalInterval(horizontal_executions) ==
    [horizontal_executions |-> horizontal_executions]

VerticalLoop(vertical_intervals) ==
    [loop_order |-> "FORWARD", vertical_intervals |-> vertical_intervals]

StencilProgram(params, vertical_loops) ==
    [params |-> params, vertical_loops |-> vertical_loops]

\* FieldAccessRecord: (field_name, offset, access_mode)
FieldAccessRecord(field_name, offset, access_mode) ==
    [field_name |-> field_name, offset |-> offset, access_mode |-> access_mode]

RECURSIVE Flatten(_)
\* the concatenation of a sequence of sequences
Flatten(seqs) == IF seqs = <<>> THEN <<>> ELSE Head(seqs) \o Flatten(Tail(seqs))

\* variant of the statement's accesses that leaves the mask out
M_StmtRecords(stmt, mask) ==
    <<FieldAccessRecord(stmt.left, ZeroOffset, "write")>>
    \o [i \in 1..Len(stmt.right) |->
           FieldAccessRecord(stmt.right[i].name, stmt.right[i].offset, "read")]

\* section 4.1: the accesses recorded for a statement of a horizontal
\* execution with the guarding condition `mask`: the write of the left-hand
\* field at (0,0,0), the reads of the right-hand expression, the read of the
\* mask
StmtRecords(stmt, mask) ==
    <<FieldAccessRecord(stmt.left, ZeroOffset, "write")>>
    \o [i \in 1..Len(stmt.right) |->
           FieldAccessRecord(stmt.right[i].name, stmt.right[i].offset, "read")]
    \o (IF mask = <<>> THEN <<>>
        ELSE <<FieldAccessRecord(mask[1].name, mask[1].offset, "read")>>)

\* section 4.1: the accesses of every statement of a horizontal execution
ExecRecords(he) ==
    Flatten([i \in 1..Len(he.body) |-> StmtRecords(he.body[i], he.mask)])

\* section 4.1: ... of every horizontal execution of a vertical interval
IntervalRecords(vi) ==
    Flatten([i \in 1..Len(vi.horizontal_executions) |->
                ExecRecords(vi.horizontal_executions[i])])

\* section 4.1: ... of every vertical interval of a vertical loop
LoopRecords(vl) ==
    Flatten([i \in 1..Len(vl.vertical_intervals) |->
                IntervalRecords(vl.vertical_intervals[i])])

\* section 4.1: ... of every vertical loop of the program
ProgramRecords(p) ==
    Flatten([i \in 1..Len(p.vertical_loops) |-> LoopRecords(p.vertical_loops[i])])

\* AccessCollector.Result(reads=, writes=): two dicts, field name -> set of offsets
Result(reads, writes) == [reads |-> reads, writes |-> writes]

\* variant of the accumulation that keeps only the first offset of a field
M_Record(result, rec) ==
    IF rec.access_mode = "write"
    THEN [result EXCEPT !.writes =
             SetItem(@, rec.field_name, GetItem(@, rec.field_name, {rec.offset}))]
    ELSE [result EXCEPT !.reads =
             SetItem(@, rec.field_name, GetItem(@, rec.field_name, {rec.offset}))]

\* section 4.1: an access accumulates into the per-field set of its mode
Record(result, rec) ==
    IF rec.access_mode = "write"
    THEN [result EXCEPT !.writes =
             SetItem(@, rec.field_name, GetItem(@, rec.field_name, {}) \cup {rec.offset})]
    ELSE [result EXCEPT !.reads =
             SetItem(@, rec.field_name, GetItem(@, rec.field_name, {}) \cup {rec.offset})]

RECURSIVE Collect(_, _)
\* the accesses `recs` accumulated into `result`, in order
Collect(result, recs) ==
    IF recs = <<>> THEN result ELSE Collect(Record(result, Head(recs)), Tail(recs))

\* AccessCollector.apply(program)
AccessCollector(p) == Collect(Result(EmptyDict, EmptyDict), ProgramRecords(p))

\* variant of the merge that replaces the offsets a field already has
M_Merge(acc, d, k) == SetItem(acc, k, d[k])

\* the offsets of the field k of the map d united into the map acc
Merge(acc, d, k) == SetItem(acc, k, GetItem(acc, k, {}) \cup d[k])

RECURSIVE MergeAll(_, _, _)
\* the offsets of the fields `keys` of the map d united into the map acc
MergeAll(acc, d, keys) ==
    IF keys = {} THEN acc
    ELSE LET k == CHOOSE k \in keys : TRUE
         IN  MergeAll(Merge(acc, d, k), d, keys \ {k})

\* Result.accesses: per field, the read offsets and the write offsets together
accesses(result) ==
    MergeAll(MergeAll(EmptyDict, result.reads, DOMAIN result.reads),
             result.writes, DOMAIN result.writes)

Max(a, b) == IF a >= b THEN a ELSE b

\* variant of the margin update that forgets the sign of the offset on the
\* `before` side
M_Widen(margins, o) == <<Max(margins[1], o), Max(margins[2], o)>>

\* section 3, FieldBoundary: the margins (before, after) widened to hold the
\* offset o of one axis
Widen(margins, o) == <<Max(margins[1], 0 - o), Max(margins[2], o)>>

RECURSIVE AxisMargins(_, _, _)
\* section 4.2: the scan of the offsets of one field on one axis
AxisMargins(margins, offsets, axis) ==
    IF offsets = {} THEN margins
    ELSE LET o == CHOOSE o \in offsets : TRUE
         IN  AxisMargins(Widen(margins, o[axis]), offsets \ {o}, axis)

\* FieldBoundary(i=, j=, k=) of a field with the recorded offsets `offsets`
FieldBoundary(offsets) ==
    [i |-> AxisMargins(<<0, 0>>, offsets, 1),
     j |-> AxisMargins(<<0, 0>>, offsets, 2),
     k |-> AxisMargins(<<0, 0>>, offsets, 3)]

\* section 4.2: a FieldBoundary per field, from the reads and writes together
BoundaryResolver(p, result) ==
    LET all == accesses(result)
    IN  [f \in Range(p.params) \cup DOMAIN all |-> FieldBoundary(GetItem(all, f, {}))]

\* the program test_access_collector builds
test_access_collector_testee ==
    StencilProgram(
        <<"tmp", "foo", "bar", "baz", "mask">>,
        << VerticalLoop(<< VerticalInterval(<<
               HorizontalExecution(
                   << AssignStmt("tmp", <<FieldAccess("foo", CartesianOffset(1, 0, 0))>>),
                      AssignStmt("bar", <<FieldAccess("tmp", ZeroOffset)>>) >>,
                   <<>>),
               HorizontalExecution(
                   << AssignStmt("baz", <<FieldAccess("tmp", CartesianOffset(0, 1, 0))>>) >>,
                   <<FieldAccess("mask", CartesianOffset(-1, -1, 1))>>) >>) >>) >>)

\* the result test_access_collector expects
test_access_collector_expected ==
    Result([f \in {"tmp", "foo", "mask"} |->
               CASE f = "tmp" -> {ZeroOffset, CartesianOffset(0, 1, 0)}
                 [] f = "foo" -> {CartesianOffset(1, 0, 0)}
                 [] f = "mask" -> {CartesianOffset(-1, -1, 1)}],
           [f \in {"tmp", "bar", "baz"} |-> {ZeroOffset}])

\* the declared fields of the programs of the model
Params == <<"a", "b", "m">>

\* the statements a program of the model is built from: copies with a shift
\* (the offsets of test_copy_shift), a statement that reads two fields and
\* writes a field it reads, and a statement without a field on the right
Statements ==
    { AssignStmt("a", <<FieldAccess("b", CartesianOffset(-1, 2, 0))>>),
      AssignStmt("a", <<FieldAccess("b", CartesianOffset(1, 2, -3))>>),
      AssignStmt("b", <<FieldAccess("a", ZeroOffset), FieldAccess("b", CartesianOffset(1, 0, 0))>>),
      AssignStmt("b", <<>>) }

\* the guarding conditions of the model: none, a field that nothing else
\* touches (the mask of test_access_collector), a field that is written too
Masks ==
    { <<>>,
      <<FieldAccess("m", CartesianOffset(-1, -1, 1))>>,
      <<FieldAccess("a", CartesianOffset(0, 1, 0))>> }

\* the statements of a program, in order
ProgramStmts(p) ==
    Flatten([l \in 1..Len(p.vertical_loops) |->
      Flatten([v \in 1..Len(p.vertical_loops[l].vertical_intervals) |->
        Flatten([h \in 1..Len(p.vertical_loops[l].vertical_intervals[v].horizontal_executions) |->
          p.vertical_loops[l].vertical_intervals[v].horizontal_executions[h].body])])])

\* seq with its items i and i+1 exchanged
Swap(seq, i) ==
    [n \in 1..Len(seq) |-> IF n = i THEN seq[i + 1] ELSE IF n = i + 1 THEN seq[i] ELSE seq[n]]

AnaInit ==
    /\ program = StencilProgram(Params, <<>>)
    /\ runs = <<>>

\* the builder adds a statement at the end of the program: to the last
\* horizontal execution, or in a new horizontal execution (with or without a
\* mask) of the last interval, of a new interval of the last loop, or of a
\* new loop
AddStatement ==
    /\ runs = <<>>
    /\ Len(ProgramStmts(program)) < MaxStmts
    /\ \E stmt \in Statements, mask \in Masks,
          level \in {"statement", "execution", "interval", "loop"} :
          LET he == HorizontalExecution(<<stmt>>, mask)
              L == Len(program.vertical_loops)
              I == Len(program.vertical_loops[L].vertical_intervals)
              H == Len(program.vertical_loops[L].vertical_intervals[I].horizontal_executions)
          IN  /\ L = 0 => level = "loop"
              /\ level = "statement" => mask = <<>>
              /\ program' =
                   CASE level = "statement" ->
                          [program EXCEPT !.vertical_loops[L].vertical_intervals[I]
                                             .horizontal_executions[H].body = Append(@, stmt)]
                     [] level = "execution" ->
                          [program EXCEPT !.vertical_loops[L].vertical_intervals[I]
                                             .horizontal_executions = Append(@, he)]
                     [] level = "interval" ->
                          [program EXCEPT !.vertical_loops[L].vertical_intervals =
                                             Append(@, VerticalInterval(<<he>>))]
                     [] level = "loop" ->
                          [program EXCEPT !.vertical_loops =
                                             Append(@, VerticalLoop(<<VerticalInterval(<<he>>)>>))]
    /\ UNCHANGED <<runs, pipeVars, genVars, argVars, twoVars, sigVars, shimVars>>

\* the analysis runs on the program: the Access Collector, then the Boundary
\* Resolver on its result
RunAnalysis ==
    /\ Len(runs) < MaxRuns
    /\ LET result == AccessCollector(program)
       IN  runs' = Append(runs, [program |-> program,
                                 reads |-> result.reads,
                                 writes |-> result.writes,
                                 accesses |-> accesses(result),
                                 boundary |-> BoundaryResolver(program, result)])
    /\ UNCHANGED <<program, pipeVars, genVars, argVars, twoVars, sigVars, shimVars>>

\* between two runs the program is handed over with two neighbouring vertical
\* loops, two neighbouring horizontal executions of an interval or two
\* neighbouring statements of a horizontal execution exchanged
Reorder ==
    /\ runs # <<>>
    /\ Len(runs) < MaxRuns
    /\ program = runs[Len(runs)].program
    /\ \/ \E n \in 1..(Len(program.vertical_loops) - 1) :
             program' = [program EXCEPT !.vertical_loops = Swap(@, n)]
       \/ \E l \in 1..Len(program.vertical_loops) :
          \E v \in 1..Len(program.vertical_loops[l].vertical_intervals) :
          \E n \in 1..(Len(program.vertical_loops[l].vertical_intervals[v]
                              .horizontal_executions) - 1) :
             program' = [program EXCEPT !.vertical_loops[l].vertical_intervals[v]
                                           .horizontal_executions = Swap(@, n)]
       \/ \E l \in 1..Len(program.vertical_loops) :
          \E v \in 1..Len(program.vertical_loops[l].vertical_intervals) :
          \E h \in 1..Len(program.vertical_loops[l].vertical_intervals[v]
                              .horizontal_executions) :
          \E n \in 1..(Len(program.vertical_loops[l].vertical_intervals[v]
                              .horizontal_executions[h].body) - 1) :
             program' = [program EXCEPT !.vertical_loops[l].vertical_intervals[v]
                                           .horizontal_executions[h].body = Swap(@, n)]
    /\ UNCHANGED <<runs, pipeVars, genVars, argVars, twoVars, sigVars, shimVars>>

AnaSpecInit == AnaInit /\ PipeIdle /\ GenIdle /\ ArgsIdle /\ TwoIdle /\ SigIdle /\ ShimIdle

AnaNext == AddStatement \/ RunAnalysis \/ Reorder

AnaSpec == AnaSpecInit /\ [][AnaNext]_vars

-----------------------------------------------------------------------------
(* Properties of the build pipeline *)

\* the kinds of the stages make_next() made, oldest first
NextMade ==
    LET log == SelectSeq(made, LAMBDA e : e[2] = "make_next")
    IN  [i \in 1..Len(log) |-> log[i][1]]

\* the kinds of all stages made, oldest first
MadeKinds == [i \in 1..Len(made) |-> made[i][1]]

NoRepeat(seq) == \A i, j \in 1..Len(seq) : seq[i] = seq[j] => i = j

\* a _make ran and raised
MakeFailed == err # NoErr /\ call[2] # "None"

StageOrder == <<"Begin", "IR", "IIR", "Source", "Bindings">>

Rank(kind) == CHOOSE i \in 1..Len(StageOrder) : StageOrder[i] = kind

C1_State ==
    /\ Len(NextMade) <= 4
    /\ NoRepeat(NextMade)
    /\ err # NoErr => MakeFailed
    /\ Len(NextMade) = 4 /\ stage # "None" => IsFinal(stage, ctx)
    /\ stage = "None" => /\ NextMade # <<>>
                         /\ IsFinal(NextMade[Len(NextMade)], ctx)

C1_Step ==
    stage \in StageKinds /\ IsFinal(stage, ctx) /\ call'[1] = "make_next"
        => stage' = "None" /\ err' = NoErr /\ made' = made

\* C1: a build driven from a BeginStage by make_next() alone makes at most 4
\* stages, no kind twice, raises nothing but what a _make raised, returns
\* None from the make_next() called on a final stage, and, unless a _make
\* raises, gets to that None.
C1_BeginReachesFinalWithinFour ==
    /\ [](start = "Begin" => C1_State)
    /\ [][start = "Begin" => C1_Step]_vars
    /\ (start = "Begin" => <>(stage = "None" \/ MakeFailed))

C1_Witness ==
    /\ start = "Begin" /\ stage = "None" /\ err = NoErr
    /\ NextMade = <<"IR", "IIR", "Source", "Bindings">>

\* what C2 says makes a SourceStage terminal
C2_Terminal(c) ==
    \/ c["backend"].BINDINGS_LANGUAGES = <<>>
    \/ ~Has(c, "bindings")
    \/ c["bindings"] = <<>>

C2_IsFinal ==
    /\ Has(ctx, "backend") => (IsFinal("Source", ctx) <=> C2_Terminal(ctx))
    /\ IsFinal("Bindings", ctx)

C2_SourceStep ==
    /\ stage = "Source" /\ Has(ctx, "backend") /\ ~C2_Terminal(ctx)
    /\ call'[1] = "make_next"

\* C2 as the claim states it, for the builds driven from a BeginStage: a
\* SourceStage is terminal exactly when the backend has no bindings
\* languages or no non-empty `bindings` is in the context, else its
\* make_next() yields a made BindingsStage; a BindingsStage is terminal.
C2_AsClaimed ==
    /\ [](start = "Begin" => C2_IsFinal)
    /\ [][start = "Begin" /\ C2_SourceStep
            => stage' = "Bindings" /\ err' = NoErr
               /\ made' = Append(made, <<"Bindings", "make_next">>)]_vars

\* C2, amended: for a context that has a backend, a SourceStage is terminal
\* exactly when the backend has no bindings languages or no non-empty
\* `bindings` is in the context; else its make_next() runs BindingsStage._make
\* on the same context and yields the made BindingsStage, unless that _make
\* raises KeyError for a key absent from the context, and then no stage is
\* returned; a BindingsStage is terminal on every context.
C2_SourceTerminalOrBindingsAttempted ==
    /\ []C2_IsFinal
    /\ [][C2_SourceStep
            => /\ call' = <<"make_next", "Bindings">>
               /\ attempts' = attempts + 1
               /\ \/ /\ err' = NoErr
                     /\ stage' = "Bindings"
                     /\ made' = Append(made, <<"Bindings", "make_next">>)
                     /\ ctx' = BindingsMake(ctx).ctx
                  \/ /\ err'[1] = "KeyError"
                     /\ ~Has(ctx, err'[2])
                     /\ stage' = stage
                     /\ made' = made]_vars

C2_Witness ==
    /\ start = "Begin" /\ stage = "Bindings" /\ err = NoErr
    /\ call = <<"make_next", "Bindings">>

C3_Order ==
    /\ \A i \in 1..Len(NextMade) : NextMade[i] = StageOrder[i + 1]
    /\ \A i, j \in 1..Len(made) : i < j => Rank(made[i][1]) <= Rank(made[j][1])
    /\ \A i \in 1..Len(made) :
          Rank(made[i][1]) > 2 =>
              \E j \in 1..(i - 1) : Rank(made[j][1]) = Rank(made[i][1]) - 1

C3_Keys ==
    /\ Has(ctx, "src") => Has(ctx, "iir")
    /\ Has(ctx, "iir") => Has(ctx, "ir") /\ Has(ctx, "id") /\ Has(ctx, "options_id")

\* C3: in a build driven from a BeginStage, make_next() makes IR, IIR, Source
\* and then Bindings, in this order and without a gap, every stage after the
\* make of its predecessor completed; and in every reachable context `src`
\* comes with `iir`, and `iir` with `ir`, `id` and `options_id`.
C3_StagesInOrderKeysInOrder == (start = "Begin" => C3_Order) /\ C3_Keys

C3_Witness ==
    /\ start = "Begin" /\ Len(made) >= 4 /\ Has(ctx, "src") /\ Has(ctx, "bindings_src")

\* the latest step was a make() of a stage whose make had just completed, and
\* it completed again
C4_MadeAgain ==
    /\ made # <<>>
    /\ made[Len(made)][1] = stage
    /\ call' = <<"make", stage>>
    /\ err' = NoErr

\* C4 as the claim states it, for the builds driven from a BeginStage: a
\* make() called again on the context its first call left behind changes no
\* key of the context, whatever the stage kind.
C4_AsClaimed == [][start = "Begin" /\ C4_MadeAgain => ctx' = ctx]_vars

\* C5: a `name`, `module` or `qualified_name` the caller passed to the
\* constructor (None is no value) is what the constructed context holds, and
\* what the context holds under these keys after the constructor is what it
\* holds after every make.
C5_IdentityKeysFirstWriterWins ==
    \A k \in {"name", "module", "qualified_name"} :
        /\ Has(kwargs, k) /\ kwargs[k] # <<>> => ctx0[k] = kwargs[k][1]
        /\ Has(ctx0, k) /\ Has(ctx, k) /\ ctx[k] = ctx0[k]

C5_Witness ==
    /\ Has(kwargs, "name") /\ kwargs["name"] # <<>> /\ Has(kwargs, "qualified_name")
    /\ ~Has(kwargs, "module")
    /\ Len(made) >= 4 /\ Has(ctx, "bindings_src")

\* C6: no call removes a top-level key from the context: the keys the
\* constructor wrote and the keys a make wrote are there after every later
\* make, completed or not.
C6_ContextKeysOnlyGrow ==
    /\ [](DOMAIN ctx0 \subseteq DOMAIN ctx)
    /\ [][DOMAIN ctx \subseteq DOMAIN ctx']_vars

C6_Witness ==
    /\ Len(made) >= 4
    /\ {"options_id", "id", "ir", "iir", "src", "bindings_src", "generator_options"}
           \subseteq DOMAIN ctx

\* the keys C7 lists for a stage kind
C7_Listed(kind) ==
    CASE kind = "IR" -> {"frontend", "backend"}
      [] kind = "IIR" -> {"ir"}
      [] kind = "Source" -> {"iir"}
      [] kind = "Bindings" -> {"bindings", "pyext_file_path"}
      [] OTHER -> {}

\* the keys the stage docstrings and C7 name as the requirements of a make
C7_Required(kind) ==
    CASE kind = "IR" -> {"frontend", "backend", "options"}
      [] kind = "IIR" -> {"ir", "backend", "options"}
      [] kind = "Source" -> {"iir", "id", "backend", "options"}
      [] kind = "Bindings" -> {"bindings", "pyext_file_path", "backend", "options", "id", "iir"}
      [] OTHER -> {}

\* the _make of a stage of this kind gets to read the key k of the context
\* c when no other requirement fails first
C7_Needs(kind, k, c) ==
    /\ k \in C7_Listed(kind)
    /\ kind = "Bindings" /\ k = "pyext_file_path"
           => Has(c, "bindings") /\ InList("python", c["bindings"])

\* this step ran the _make of a stage of the given kind
C7_Ran(kind) == call'[2] = kind /\ attempts' = attempts + 1

C7_Step ==
    /\ err = NoErr
    /\ err' # NoErr /\ call'[2] # "None" =>
          /\ stage' = stage
          /\ made' = made
          /\ attempts' = attempts + 1
          /\ err'[1] = "KeyError" => ~Has(ctx', err'[2])
    /\ \A kind \in StageKinds, k \in {"frontend", "backend", "ir", "iir", "bindings",
                                      "pyext_file_path"} :
          C7_Ran(kind) /\ C7_Needs(kind, k, ctx) /\ ~Has(ctx, k) =>
              /\ err' # NoErr
              /\ \/ err'[1] = "KeyError" /\ ~Has(ctx, err'[2])
                 \/ kind = "IIR" /\ err' = OptionError
              /\ C7_Required(kind) \ DOMAIN ctx = {k}
                 /\ (kind = "IIR" => check_options(ctx["backend"], ctx["options"]))
                     => err' = KeyError(k)

C8_Rejected ==
    /\ C7_Ran("IIR")
    /\ Has(ctx, "backend") /\ Has(ctx, "options")
    /\ ~check_options(ctx["backend"], ctx["options"])

\* C8: IIRStage._make on options the backend's check rejects raises the
\* option error without having invoked the analysis/transform pipeline and
\* without writing the context; after the option error the context has no
\* `iir`, no transform ran, and no Source or Bindings stage was made.
C8_OptionCheckBeforeTransform ==
    /\ [][C8_Rejected =>
            /\ err' = OptionError
            /\ transformRuns' = transformRuns
            /\ ctx' = ctx
            /\ stage' = stage /\ made' = made]_vars
    /\ [](err = OptionError =>
            /\ call[2] = "IIR"
            /\ ~Has(ctx, "iir")
            /\ transformRuns = 0
            /\ stage \in {"IR", "IIR"}
            /\ \A i \in 1..Len(made) : made[i][1] \notin {"Source", "Bindings"})

C8_Witness ==
    /\ start = "Begin" /\ err = OptionError /\ Has(ctx, "ir") /\ stage = "IR"

\* the latest call ran the _make of a stage of the given kind to its end
C18_JustMade(kind) == call[2] = kind /\ err = NoErr

\* C18: after SourceStage.make on a backend with a bindings language, `src`
\* holds the generated computation under "computation.<SRC_EXTENSION>" and
\* holds neither "computation.src" nor "bindings.cpp"; a "bindings.cpp" the
\* generator emitted is held under `bindings_src` and by no file of `src`.
C18_SourceRoutesComputationAndStub ==
    (C18_JustMade("Source") /\ ctx["backend"].BINDINGS_LANGUAGES # <<>>) =>
        LET backend == ctx["backend"]
            generated == pyext_generate(backend, ctx["id"], ctx["options"], ctx["iir"])
        IN  /\ Has(ctx, "src")
            /\ Has(ctx["src"], ComputationFileName(backend.SRC_EXTENSION))
            /\ ctx["src"][ComputationFileName(backend.SRC_EXTENSION)]
                   = generated["computation.src"]
            /\ ~Has(ctx["src"], "computation.src")
            /\ ~Has(ctx["src"], "bindings.cpp")
            /\ Has(generated, "bindings.cpp") =>
                  /\ Has(ctx, "bindings_src")
                  /\ Has(ctx["bindings_src"], "bindings.cpp")
                  /\ ctx["bindings_src"]["bindings.cpp"] = generated["bindings.cpp"]
                  /\ \A f \in DOMAIN ctx["src"] : ctx["src"][f] # generated["bindings.cpp"]

\* the Source stage of a build whose generator emits both files was made
C18_Witness ==
    /\ C18_JustMade("Source")
    /\ ctx["backend"].pyext_files = {"computation.src", "bindings.cpp"}
    /\ DOMAIN ctx["src"] = {"computation.cpp"}
    /\ DOMAIN ctx["bindings_src"] = {"bindings.cpp"}

\* this step ran BindingsStage._make
C19_BindingsRan == call'[2] = "Bindings" /\ attempts' = attempts + 1

\* the latest completed make before this step was the Source stage's
C19_AfterSource == made # <<>> /\ made[Len(made)][1] = "Source"

\* "python" is among the requested bindings
C19_PythonRequested == Has(ctx, "bindings") /\ InList("python", ctx["bindings"])

C19_Step ==
    C19_BindingsRan =>
        /\ (C19_AfterSource /\ C19_PythonRequested /\ err' = NoErr) =>
              LET stored == GetItem(GetItem(ctx, "bindings_src", EmptyDict),
                                    "bindings.cpp", EmptyText)
                  generated == pyext_generate(ctx["backend"], ctx["id"], ctx["options"],
                                              ctx["iir"])
                  python == ctx'["bindings_src"]["python"]
              IN  /\ DOMAIN python = {"bindings.cpp", PyFileName(ctx["name"])}
                  /\ python["bindings.cpp"] = stored
                  /\ stored = IF Has(generated, "bindings.cpp")
                              THEN generated["bindings.cpp"] ELSE EmptyText
                  /\ python[PyFileName(ctx["name"])] =
                         module_generate(ctx["backend"], ctx'["generator_options"],
                                         ctx["id"], ctx["iir"])
        /\ ~C19_PythonRequested => ctx' = ctx

C22_MakeFailed == err = NoErr /\ err' # NoErr /\ call'[2] \in StageKinds

\* the keys the failing make added to the context or whose value it changed
C22_Touched ==
    {k \in DOMAIN ctx' : ~Has(ctx, k) \/ ctx[k] # ctx'[k]} \cup (DOMAIN ctx \ DOMAIN ctx')

\* C22 as the claim states it: a stage make that fails leaves the context as
\* it was before the call; the failing stage has added or changed no key.
C22_Step == C22_MakeFailed => ctx' = ctx

C22_AsClaimed == [][C22_Step]_vars

\* what does hold of a failing make when every collaborator returns: the IR,
\* IIR and native Source makes leave the context as it was; the Python-module
\* Source make and the Bindings make leave at most `generator_options` behind
C22_FailureLeavesGeneratorOptions ==
    [][C22_MakeFailed =>
          /\ C22_Touched \subseteq {"generator_options"}
          /\ C22_Touched # {} =>
                \/ call'[2] = "Bindings"
                \/ call'[2] = "Source" /\ ctx["backend"].BINDINGS_LANGUAGES = <<>>]_vars

-----------------------------------------------------------------------------
(* Properties of two builds side by side *)

\* build b is over: make_next() returned None or raised
C16_Over(b) == held[b] = 0 \/ errs[b] # NoErr

\* C16 as the claim states it: whatever the interleaving of the makes of two
\* builds with separate BuildContexts, the context of a build that is over
\* is the context the build reaches when it runs alone.
C16_AsClaimed ==
    \A b \in {1, 2} : C16_Over(b) => View(b) = alone[b]

-----------------------------------------------------------------------------
(* Properties of make_args_data_from_iir *)

\* the number of items of the ordered dict od with the key k
OdCount(od, k) == Cardinality({i \in 1..Len(od) : od[i][1] = k})

C10_Entries(ir, d) ==
    \A name \in Range(ir.api_signature) :
        LET mine == IF name \in ir.fields THEN d.field_info ELSE d.parameter_info
            other == IF name \in ir.fields THEN d.parameter_info ELSE d.field_info
        IN  /\ OdCount(mine, name) = 1
            /\ OdCount(other, name) = 0
            /\ OdGet(mine, name) = <<>> <=> name \in ir.unreferenced

C10_Order(ir, d) ==
    /\ OdKeys(d.field_info) = SelectSeq(ir.api_signature, LAMBDA n : n \in ir.fields)
    /\ OdKeys(d.parameter_info) = SelectSeq(ir.api_signature, LAMBDA n : n \notin ir.fields)

\* with the argument `name` marked unreferenced as well, every other argument
\* keeps its place and its entry
C10_Stable(ir, d, name) ==
    LET d2 == make_args_data_from_iir([ir EXCEPT !.unreferenced = @ \cup {name}])
    IN  /\ OdKeys(d2.field_info) = OdKeys(d.field_info)
        /\ OdKeys(d2.parameter_info) = OdKeys(d.parameter_info)
        /\ \A i \in 1..Len(d.field_info) :
              d.field_info[i][1] # name => d2.field_info[i] = d.field_info[i]
        /\ \A i \in 1..Len(d.parameter_info) :
              d.parameter_info[i][1] # name => d2.parameter_info[i] = d.parameter_info[i]

\* C10: make_args_data_from_iir gives every argument of api_signature one
\* entry, in field_info when it is a field and in parameter_info otherwise;
\* the entry is None exactly when the argument is unreferenced; the entries
\* are in declaration order; marking one more argument unreferenced moves
\* and changes no other entry.
C10_ArgsDataKeepsDeclarationOrder ==
    data # <<>> =>
        /\ C10_Entries(implementation_ir, data[1])
        /\ C10_Order(implementation_ir, data[1])
        /\ \A name \in Range(implementation_ir.api_signature) :
              C10_Stable(implementation_ir, data[1], name)
        /\ data[1].unreferenced = implementation_ir.unreferenced

C10_Witness ==
    /\ data # <<>>
    /\ Len(implementation_ir.api_signature) >= 3
    /\ LET sig == implementation_ir.api_signature IN
        /\ sig[1] \in implementation_ir.fields /\ sig[1] \notin implementation_ir.unreferenced
        /\ sig[2] \in implementation_ir.fields /\ sig[2] \in implementation_ir.unreferenced
        /\ sig[3] \in implementation_ir.fields /\ sig[3] \notin implementation_ir.unreferenced
        /\ data[1].field_info[2] = <<sig[2], <<>> >>
        /\ data[1].field_info[3][2] # <<>>

\* some accessor of some stage of some group of some multi-stage of ir is a
\* field accessor of `name` with read-write intent
C11_Written(ir, name) ==
    \E i \in 1..Len(ir.multi_stages) :
    \E j \in 1..Len(ir.multi_stages[i].groups) :
    \E k \in 1..Len(ir.multi_stages[i].groups[j].stages) :
    \E a \in 1..Len(ir.multi_stages[i].groups[j].stages[k].accessors) :
        LET acc == ir.multi_stages[i].groups[j].stages[k].accessors[a]
        IN  acc.kind = "FieldAccessor" /\ acc.symbol = name /\ acc.intent = "READ_WRITE"

\* some accessor of ir is a field accessor of `name` with read-only intent
C11_Read(ir, name) ==
    \E i \in 1..Len(ir.multi_stages) :
    \E j \in 1..Len(ir.multi_stages[i].groups) :
    \E k \in 1..Len(ir.multi_stages[i].groups[j].stages) :
    \E a \in 1..Len(ir.multi_stages[i].groups[j].stages[k].accessors) :
        LET acc == ir.multi_stages[i].groups[j].stages[k].accessors[a]
        IN  acc.kind = "FieldAccessor" /\ acc.symbol = name /\ acc.intent = "READ_ONLY"

\* C11: the FieldInfo of every referenced field of the signature has the
\* access kind READ_WRITE when some accessor of some stage of some
\* multi-stage writes the field (read-write intent), and READ_ONLY
\* otherwise, however often the field is read.
C11_AccessKindIsWriteExistence ==
    data # <<>> =>
        \A i \in 1..Len(data[1].field_info) :
            LET name == data[1].field_info[i][1]
                info == data[1].field_info[i][2]
            IN  info # <<>> =>
                   /\ info[1].access \in {"READ_ONLY", "READ_WRITE"}
                   /\ info[1].access = "READ_WRITE" <=> C11_Written(implementation_ir, name)

\* two referenced fields that are both read, one of them written in a later
\* multi-stage
C11_Witness ==
    /\ data # <<>>
    /\ Len(data[1].field_info) >= 2
    /\ data[1].field_info[1][2] # <<>> /\ data[1].field_info[2][2] # <<>>
    /\ data[1].field_info[1][2][1].access = "READ_ONLY"
    /\ data[1].field_info[2][2][1].access = "READ_WRITE"
    /\ C11_Read(implementation_ir, data[1].field_info[1][1])
    /\ C11_Read(implementation_ir, data[1].field_info[2][1])
    /\ ~C11_Written(implementation_ir, data[1].field_info[1][1])

-----------------------------------------------------------------------------
(* Properties of the access and boundary analysis *)

\* the horizontal executions of a program
C12_Execs(p) ==
    UNION { UNION { Range(p.vertical_loops[l].vertical_intervals[v].horizontal_executions)
                    : v \in 1..Len(p.vertical_loops[l].vertical_intervals) }
            : l \in 1..Len(p.vertical_loops) }

\* the field accesses a program reads: on the right-hand side of a statement
\* or as the mask of a horizontal execution
C12_ReadAccesses(p) ==
    UNION { Range(stmt.right) : stmt \in Range(ProgramStmts(p)) }
    \cup { he.mask[1] : he \in { he \in C12_Execs(p) : he.mask # <<>> } }

\* the fields on the left-hand side of a statement
C12_Written(p) == { stmt.left : stmt \in Range(ProgramStmts(p)) }

\* C12: the reads map of the collector holds, per field, exactly the offsets
\* of the right-hand-side accesses to it in any statement (masked or not)
\* and of the mask accesses on it; the writes map holds (0,0,0) for exactly
\* the fields on the left-hand side of some statement; so a field used only
\* as a mask is in reads and not in writes.  The program of
\* test_access_collector gives the result the test expects.
C12_CollectorHoldsAllAccesses ==
    \A n \in 1..Len(runs) :
        LET p == runs[n].program
            read == C12_ReadAccesses(p)
        IN  /\ DOMAIN runs[n].reads = { a.name : a \in read }
            /\ \A f \in DOMAIN runs[n].reads :
                  runs[n].reads[f] = { a.offset : a \in { a \in read : a.name = f } }
            /\ DOMAIN runs[n].writes = C12_Written(p)
            /\ \A f \in DOMAIN runs[n].writes : runs[n].writes[f] = {ZeroOffset}
            /\ AccessCollector(test_access_collector_testee) = test_access_collector_expected

\* a run on a program with a masked execution whose mask field nothing else
\* touches, and with a field read at two offsets
C12_Witness ==
    /\ runs # <<>>
    /\ \E he \in C12_Execs(runs[1].program) : he.mask # <<>> /\ he.mask[1].name = "m"
    /\ "m" \in DOMAIN runs[1].reads /\ "m" \notin DOMAIN runs[1].writes
    /\ runs[1].reads["m"] = {CartesianOffset(-1, -1, 1)}
    /\ "b" \in DOMAIN runs[1].reads /\ Cardinality(runs[1].reads["b"]) >= 2
    /\ "a" \in DOMAIN runs[1].writes

\* C13: for every field, the `accesses` entry of the collector's result is
\* the union of the read offsets and the write offsets recorded for the
\* field, an absent entry counting as the empty set.
C13_AccessesIsUnion ==
    \A n \in 1..Len(runs) :
        /\ DOMAIN runs[n].accesses \subseteq Range(Params)
        /\ \A f \in Range(Params) :
              GetItem(runs[n].accesses, f, {}) =
                  GetItem(runs[n].reads, f, {}) \cup GetItem(runs[n].writes, f, {})

\* a run in which a field is read at a nonzero offset and written
C13_Witness ==
    /\ runs # <<>>
    /\ "b" \in DOMAIN runs[1].reads /\ "b" \in DOMAIN runs[1].writes
    /\ runs[1].reads["b"] # runs[1].writes["b"]
    /\ "m" \notin DOMAIN runs[1].accesses

\* the least and the greatest number of a non-empty set of integers
C14_Min(S) == CHOOSE x \in S : \A y \in S : x <= y

C14_Max(S) == CHOOSE x \in S : \A y \in S : x >= y

\* the margins the claim gives for the offsets O observed on one axis
C14_Margins(O) ==
    IF O = {} THEN <<0, 0>>
    ELSE <<Max(0, 0 - C14_Min(O)), Max(0, C14_Max(O))>>

\* the boundary of b in the copy-with-shift program `a = b[offset]`
C14_CopyShift(run, offset, boundary) ==
    (/\ ProgramStmts(run.program) = <<AssignStmt("a", <<FieldAccess("b", offset)>>)>>
     /\ \A he \in C12_Execs(run.program) : he.mask = <<>>) =>
        /\ run.boundary["b"] = boundary
        /\ run.boundary["a"] = [i |-> <<0, 0>>, j |-> <<0, 0>>, k |-> <<0, 0>>]

\* C14: for every field and every axis the boundary is (max(0, -min),
\* max(0, max)) of the offsets observed on the axis over all reads and writes
\* of the program; the margins are not negative; a field that is only
\* written has all-zero margins; an axis without a nonzero offset has (0,0);
\* the two copy-with-shift programs of the specification give the
\* boundaries it names.
C14_BoundaryIsExtremeOffsets ==
    \A n \in 1..Len(runs) :
        /\ \A f \in DOMAIN runs[n].boundary :
              LET offsets == GetItem(runs[n].reads, f, {}) \cup GetItem(runs[n].writes, f, {})
                  b == runs[n].boundary[f]
                  axes == <<b.i, b.j, b.k>>
              IN  /\ \A x \in 1..3 :
                        /\ axes[x] = C14_Margins({ o[x] : o \in offsets })
                        /\ axes[x][1] >= 0 /\ axes[x][2] >= 0
                        /\ (\A o \in offsets : o[x] = 0) => axes[x] = <<0, 0>>
                  /\ f \notin DOMAIN runs[n].reads => \A x \in 1..3 : axes[x] = <<0, 0>>
        /\ Range(Params) \subseteq DOMAIN runs[n].boundary
        /\ C14_CopyShift(runs[n], CartesianOffset(-1, 2, 0),
                         [i |-> <<1, 0>>, j |-> <<0, 2>>, k |-> <<0, 0>>])
        /\ C14_CopyShift(runs[n], CartesianOffset(1, 2, -3),
                         [i |-> <<0, 1>>, j |-> <<0, 2>>, k |-> <<3, 0>>])

\* a run in which b is read at (-1,2,0) and (1,2,-3) and a is only written
C14_Witness ==
    /\ runs # <<>>
    /\ "b" \in DOMAIN runs[1].reads
    /\ {CartesianOffset(-1, 2, 0), CartesianOffset(1, 2, -3)} \subseteq runs[1].reads["b"]
    /\ runs[1].boundary["b"].i = <<1, 1>>
    /\ runs[1].boundary["b"].j = <<0, 2>>
    /\ runs[1].boundary["b"].k = <<3, 0>>
    /\ "a" \in DOMAIN runs[1].writes /\ "a" \notin DOMAIN runs[1].reads
    /\ runs[1].boundary["a"] = [i |-> <<0, 0>>, j |-> <<0, 0>>, k |-> <<0, 0>>]

C20_RunCalls ==
    { i \in 1..Len(implementation[1].source) :
         implementation[1].source[i].text = "pyext_module.run_computation" }

\* what the claim expects for each referenced argument: a field with its
\* origin right after it, a parameter alone
C20_Expected(ir, refs) ==
    [n \in 1..Len(refs) |->
        IF refs[n] \in ir.fields THEN <<refs[n], OriginOf(refs[n])>> ELSE <<refs[n]>>]

RECURSIVE C20_Concat(_)
C20_Concat(seqs) == IF seqs = <<>> THEN <<>> ELSE Head(seqs) \o C20_Concat(Tail(seqs))

\* C20: when the implementation has an effect, generate_implementation emits
\* one run call whose arguments, between list(_domain_) and exec_info, are the
\* referenced arguments of the signature in declaration order, each field
\* immediately followed by its origin and nothing else; unreferenced
\* arguments are left out; when the implementation has no effect no run call
\* is emitted.
C20_RunCallPassesReferencedArguments ==
    implementation # <<>> =>
        LET ir == implementation_ir
            refs == SelectSeq(ir.api_signature, LAMBDA n : n \notin ir.unreferenced)
        IN  IF implementation[1].has_effect
            THEN /\ Cardinality(C20_RunCalls) = 1
                 /\ \A i \in C20_RunCalls :
                       LET args == implementation[1].source[i].args
                           names == SelectSeq(args, LAMBDA a : a \in Range(ir.api_signature))
                       IN  /\ args = <<"list(_domain_)">> \o C20_Concat(C20_Expected(ir, refs))
                                        \o <<"exec_info">>
                           /\ names = refs
                           /\ \A n \in 1..Len(args) :
                                 /\ args[n] \notin ir.unreferenced
                                 /\ args[n] \in (Range(refs) \cap ir.fields) =>
                                       args[n + 1] = OriginOf(args[n])
            ELSE C20_RunCalls = {}

\* a run call for a signature of a referenced field, an unreferenced argument
\* and a referenced parameter
C20_Witness ==
    /\ implementation # <<>>
    /\ implementation[1].has_effect
    /\ implementation_ir.api_signature = <<"a", "b", "c">>
    /\ implementation_ir.fields \cap {"a", "b", "c"} = {"a", "b"}
    /\ implementation_ir.unreferenced = {"b"}
    /\ \E i \in C20_RunCalls :
          implementation[1].source[i].args =
              <<"list(_domain_)", "a", "list(_origin_['a'])", "c", "exec_info">>

-----------------------------------------------------------------------------
(* Properties of the module generators *)

\* a builder was given to the constructor or to one of the calls 1..i
C9_BuilderGiven(i) ==
    genInitBuilder # <<>> \/ \E j \in 1..i : genLog[j].builder # <<>>

\* the i-th call passed the keyword arguments the generator's class reads
C9_HasPyextKwargs(i) ==
    genKind = "Base" \/ DOMAIN genLog[i].kwargs = {"pyext_module_name", "pyext_file_path"}

\* C9 as the claim states it: a call returns module source only if a builder
\* was given at construction, in this call or in an earlier call, and a call
\* of a generator that was never given a builder raises the RuntimeError.
C9_AsClaimed ==
    \A i \in 1..Len(genLog) :
        /\ genLog[i].result[1] = "return" => C9_BuilderGiven(i)
        /\ ~C9_BuilderGiven(i) => genLog[i].result = <<"raise", RuntimeError>>

\* C9, amended: a call returns module source only if a builder was given at
\* construction, in this call or in an earlier call; a call of a generator
\* that was never given a builder returns no source and raises: the
\* RuntimeError, except that a native-extension generator called without its
\* `pyext_module_name` or `pyext_file_path` keyword argument raises the
\* KeyError of the first one absent.
C9_UnboundGeneratorFails ==
    \A i \in 1..Len(genLog) :
        /\ genLog[i].result[1] = "return" => C9_BuilderGiven(i)
        /\ ~C9_BuilderGiven(i) =>
              /\ genLog[i].result[1] = "raise"
              /\ C9_HasPyextKwargs(i) => genLog[i].result[2] = RuntimeError
              /\ ~C9_HasPyextKwargs(i) =>
                    genLog[i].result[2] =
                        KeyError(FirstMissing(genLog[i].kwargs,
                                              <<"pyext_module_name", "pyext_file_path">>))

C9_Witness ==
    /\ genKind = "CUDAPyExt" /\ Len(genLog) = 3
    /\ genLog[1].result = <<"raise", RuntimeError>>
    /\ genLog[2].builder # <<>> /\ genLog[2].result[1] = "return"
    /\ genLog[3].builder = <<>> /\ genLog[3].result[1] = "return"

\* the text the claim expects for an argument: its name, with its default
\* when it has one
C21_Text(arg) ==
    IF arg.default = Empty THEN arg.name ELSE arg.name \o "=" \o ToString(arg.default[1])

\* C21: the generated signature contains every declared argument, whether or
\* not it is unreferenced: the positional arguments first in declaration
\* order, then, only when at least one keyword argument exists, a `*` followed
\* by the keyword arguments in declaration order, each with its default when
\* it has one.
C21_SignatureKeepsEveryArgument ==
    signature # <<>> =>
        LET api_signature == generator.builder.definition_ir.api_signature
            positional == SelectSeq(api_signature, LAMBDA arg : ~arg.is_keyword)
            keyword == SelectSeq(api_signature, LAMBDA arg : arg.is_keyword)
            entries == [i \in 1..Len(positional) |-> C21_Text(positional[i])]
                       \o (IF keyword = <<>> THEN <<>> ELSE <<"*">>)
                       \o [i \in 1..Len(keyword) |-> C21_Text(keyword[i])]
        IN  /\ signature[1] = Join(entries, ", ")
            /\ Len(entries) = Len(api_signature) + (IF keyword = <<>> THEN 0 ELSE 1)

\* an unreferenced positional argument and a keyword argument with a default
\* are both in the signature
C21_Witness ==
    /\ signature = <<"a, b, *, c=1">>
    /\ generator.args_data.unreferenced = {"b"}

\* a signature of positional arguments has no `*`
C21_WitnessPositional ==
    /\ signature = <<"a, b=1">>
    /\ generator.args_data.unreferenced = {"a", "b"}

-----------------------------------------------------------------------------
(* Properties of the subscript shims *)

\* every index constant of the subscript is 0
C23_AllZero == \A i \in 1..Len(subscript.index) : subscript.index[i] = 0

\* C23 as the claim states it: for every single-index and every
\* multi-dimensional subscript of integer constants the pre-3.9 and the 3.9+
\* shim agree on is_zero_point: each returns true exactly when every index
\* constant equals 0.
C23_AsClaimed ==
    \A version \in DOMAIN zero_point : zero_point[version] = C23_AllZero

\* what does hold: the pre-3.9 shim answers as claimed for every subscript,
\* the 3.9+ shim for the single-index ones; for a multi-dimensional subscript
\* the 3.9+ shim returns true exactly when no index constant equals 0
C23_Py39TestsTruthiness ==
    \A version \in DOMAIN zero_point :
        IF version = "3.9" /\ subscript.multi
        THEN zero_point[version] = (\A i \in 1..Len(subscript.index) : subscript.index[i] # 0)
        ELSE zero_point[version] = C23_AllZero

====
